---------------------------- MODULE Spec2Model ----------------------------
(***************************************************************************)
(* Model of the alert subsystem of Hazard_Detection/alert_system.py:       *)
(* AlertManager with its delivery queue, its single worker thread, the     *)
(* escalation timers (one thread per armed timer) and a client thread      *)
(* that calls add_recipient, send_alert and acknowledge_alert.             *)
(*                                                                         *)
(* The code takes no lock, so the threads interleave between statements.   *)
(* A thread's position is the source line it executes next ("l308" is      *)
(* line 308 of alert_system.py).  Time is the wall clock in minutes.       *)
(***************************************************************************)
EXTENDS Integers, Sequences, FiniteSets, Bags, TLC

(***************************************************************************)
(* Bounds of the model.                                                    *)
(***************************************************************************)
\* Spec follows MaxAlerts alerts for ShortTicks clock ticks, SpecLong follows
\* one alert for LongTicks clock ticks.  A tick lasts one escalation timeout.
MaxAlerts == 2
ShortTicks == 1
LongTicks == 4

\* SpecStats takes statistics of histories of up to MaxStatAlerts alerts.
MaxStatAlerts == 3

\* SpecQueries follows one alert and the client's queries for QueryTicks
\* clock ticks.
QueryTicks == 2

\* The client adds up to MaxRecipients recipients.
MaxRecipients == 2

(***************************************************************************)
(* Program constants.                                                      *)
(***************************************************************************)
\* AlertSeverity values.
LOW == 1
MEDIUM == 2
HIGH == 3
CRITICAL == 4
AlertSeverity == LOW..CRITICAL

\* escalation_config as the constructor sets it (timeout in minutes).
EscalationTimeout == 5
MaxEscalations == 3
DefaultEscalationConfig ==
    [enabled |-> TRUE, timeout |-> EscalationTimeout,
     max_escalations |-> MaxEscalations]

\* Optional values: None is the empty sequence, a value x is <<x>>.
None == <<>>
Some(x) == <<x>>

\* The people who acknowledge alerts.
Actors == {"alice", "bob"}

\* The clock advances in steps of this many minutes.
TickStep == EscalationTimeout

\* An Alert's timestamp (line 76) is an init parameter of the dataclass: the
\* time of construction by default (datetime.now), at submission or one
\* timeout before it, or a time the caller supplies, here one timeout ahead
\* of the clock.
TimestampSkews == {0 - EscalationTimeout, 0, EscalationTimeout}

\* The severities the client gives its alerts.
InitialSeverities == {LOW, HIGH, CRITICAL}

(***************************************************************************)
(* Strings of digits and ':' as sequences of code points, compared as      *)
(* Python compares str.                                                    *)
(***************************************************************************)
\* A comparison that excludes equal strings.
RECURSIVE StrLeqStrict(_, _)
StrLeqStrict(s, t) ==
    IF t = <<>> THEN FALSE
    ELSE IF s = <<>> THEN TRUE
    ELSE IF Head(s) < Head(t) THEN TRUE
    ELSE IF Head(s) > Head(t) THEN FALSE
    ELSE StrLeqStrict(Tail(s), Tail(t))

RECURSIVE StrLeq(_, _)
StrLeq(s, t) ==
    IF s = <<>> THEN TRUE
    ELSE IF t = <<>> THEN FALSE
    ELSE IF Head(s) < Head(t) THEN TRUE
    ELSE IF Head(s) > Head(t) THEN FALSE
    ELSE StrLeq(Tail(s), Tail(t))

\* Code points of '0'..'9' and ':'.
Digit(d) == 48 + d
Colon == 58

\* datetime.strftime('%H:%M') of a time of day given in minutes since midnight.
StrfHM(minutes) ==
    LET h == (minutes \div 60) % 24
        m == minutes % 60
    IN  <<Digit(h \div 10), Digit(h % 10), Colon, Digit(m \div 10), Digit(m % 10)>>

\* Minutes since midnight of the moment the clock reads 0 (08:50).
ClockOrigin == 8 * 60 + 50

\* The wall-clock time of day when the clock reads t.
TimeOfDay(t) == (ClockOrigin + t) % 1440

(***************************************************************************)
(* Recipients.  active_hours is a dict, modelled as a function whose       *)
(* domain is the set of keys present; None and {} are both falsy in the    *)
(* test of line 60 and are both the empty dict here.                       *)
(***************************************************************************)
\* The channels with a handler in channel_handlers: the members of
\* AlertChannel.  A recipient's list may hold anything else ("pager" below).
HandledChannels ==
    {"email", "sms", "push", "webhook", "slack", "discord", "telegram",
     "pagerduty", "console"}

\* The channels whose sender raises in some deliveries: _send_console prints,
\* and print raises when the stream is closed or cannot encode the text.
FailingChannels == {"console"}

\* A dict without any key.
EmptyDict == [k \in {} |-> 0]

RecipientPool ==
    << [name |-> "ops", channels |-> <<"console", "email">>,
        severity_threshold |-> MEDIUM, active_hours |-> EmptyDict],
       [name |-> "chief", channels |-> <<"pager", "sms">>,
        severity_threshold |-> CRITICAL, active_hours |-> EmptyDict] >>

\* A check that raises whenever a key of active_hours is missing.
ShouldReceiveRaisesEager(recipient, severity, current_time) ==
    /\ severity >= recipient.severity_threshold
    /\ DOMAIN recipient.active_hours # {}
    /\ ~ ({"start", "end"} \subseteq DOMAIN recipient.active_hours)

\* AlertRecipient.should_receive_alert raises KeyError when the threshold test
\* passed and active_hours is a non-empty dict without 'start', or without
\* 'end' while start <= current_hour: line 62 is a chained comparison, which
\* looks up 'start' first and looks up 'end' only when the first comparison is
\* true.
ShouldReceiveRaises(recipient, severity, current_time) ==
    /\ severity >= recipient.severity_threshold
    /\ DOMAIN recipient.active_hours # {}
    /\ \/ "start" \notin DOMAIN recipient.active_hours
       \/ /\ "end" \notin DOMAIN recipient.active_hours
          /\ StrLeq(recipient.active_hours["start"],
                    StrfHM(TimeOfDay(current_time)))

\* should_receive_alert without the threshold test of lines 56-57.
ShouldReceiveAlertNoThreshold(recipient, severity, current_time) ==
    IF DOMAIN recipient.active_hours # {}
    THEN LET current_hour == StrfHM(TimeOfDay(current_time))
         IN  /\ StrLeq(recipient.active_hours["start"], current_hour)
             /\ StrLeq(current_hour, recipient.active_hours["end"])
    ELSE TRUE

\* AlertRecipient.should_receive_alert(severity, current_time).
ShouldReceiveAlert(recipient, severity, current_time) ==
    IF severity < recipient.severity_threshold THEN FALSE
    ELSE IF DOMAIN recipient.active_hours # {}
         THEN LET current_hour == StrfHM(TimeOfDay(current_time))
              IN  /\ StrLeq(recipient.active_hours["start"], current_hour)
                  /\ StrLeq(current_hour, recipient.active_hours["end"])
         ELSE TRUE

(***************************************************************************)
(* State.                                                                  *)
(***************************************************************************)
VARIABLES
    now,               \* the wall clock, minutes
    alerts,            \* the Alert objects constructed so far, by object number
    recipients,        \* AlertManager.recipients
    active_alerts,     \* AlertManager.active_alerts: alert_id -> object
    alert_history,     \* AlertManager.alert_history: objects
    alert_queue,       \* AlertManager.alert_queue: <<object, ticket>>
    escalation_config, \* AlertManager.escalation_config
    caller,            \* the client thread
    worker,            \* the processing thread (_process_alerts)
    sender_calls,      \* the handler calls of the worker's current delivery
    timers,            \* the threading.Timer threads, a bag: the live ones,
                       \* and with pc "KeyError" those an exception ended
    tickets            \* number of queue.put calls so far

vars == <<now, alerts, recipients, active_alerts, alert_history, alert_queue,
          escalation_config, caller, worker, sender_calls, timers, tickets>>

\* dict.get(key, default)
DictGet(d, key, default) == IF key \in DOMAIN d THEN d[key] ELSE default

\* d[key] = value
DictSet(d, key, value) ==
    [k \in DOMAIN d \cup {key} |-> IF k = key THEN value ELSE d[k]]

\* del d[key]
DictDel(d, key) == [k \in DOMAIN d \ {key} |-> d[k]]

\* Alert(alert_id, severity, timestamp): metadata empty, not acknowledged.
\* severity0 remembers the severity given at construction.
NewAlert(id, severity, timestamp) ==
    [alert_id |-> id, severity |-> severity, severity0 |-> severity,
     timestamp |-> timestamp, metadata |-> EmptyDict,
     acknowledged |-> FALSE, acknowledged_by |-> None, acknowledged_at |-> None]

CallerIdle == [pc |-> "idle"]
WorkerStart ==
    [pc |-> "l175", alert |-> 0, ticket |-> 0, outcome |-> "none",
     current_time |-> 0, i |-> 0, j |-> 0]

\* AlertManager.__init__
Init ==
    /\ now = 0
    /\ alerts = <<>>
    /\ recipients = <<>>
    /\ active_alerts = EmptyDict
    /\ alert_history = <<>>
    /\ alert_queue = <<>>
    /\ escalation_config = DefaultEscalationConfig
    /\ caller = CallerIdle
    /\ worker = WorkerStart
    /\ sender_calls = <<>>
    /\ timers = EmptyBag
    /\ tickets = 0

\* A put that joins at the front.
QueuePutFront(q, item) == <<item>> \o q

\* queue.Queue.put: the item joins at the back.
QueuePut(q, item) == Append(q, item)

\* queue.Queue.get: the item at the front.
QueueFront(q) == Head(q)
QueueRest(q) == Tail(q)

\* The clock advances.
Tick(max_ticks) ==
    /\ now + TickStep <= max_ticks * TickStep
    /\ now' = now + TickStep
    /\ UNCHANGED <<alerts, recipients, active_alerts, alert_history, alert_queue,
                   escalation_config, caller, worker, sender_calls, timers, tickets>>


(***************************************************************************)
(* The client thread: add_recipient, send_alert, acknowledge_alert.        *)
(*                                                                         *)
(* Statements of one thread that no other thread can tell apart are one    *)
(* step: the ack fields of an Alert are written by the client only and     *)
(* read by no thread of the manager, so lines 308-312 are one step, and    *)
(* line 317, the write to active_alerts that the timers race with, is      *)
(* another.                                                                *)
(***************************************************************************)
\* add_recipient(recipient), line 150: the recipient joins the end of the
\* list, at any time, also while alerts wait or are delivered, and whether or
\* not it is in the list already.
AddRecipient(recipient) ==
    /\ caller.pc = "idle"
    /\ Len(recipients) < MaxRecipients
    /\ recipients' = Append(recipients, recipient)
    /\ UNCHANGED <<now, alerts, active_alerts, alert_history, alert_queue,
                   escalation_config, caller, worker, sender_calls, timers, tickets>>

\* The client constructs an Alert with a fresh id and calls send_alert, which
\* runs line 163: self.active_alerts[alert.alert_id] = alert.
SendAlertCall(max_alerts, severity, skew) ==
    /\ caller.pc = "idle"
    /\ Len(alerts) < max_alerts
    /\ LET o == Len(alerts) + 1
       IN  /\ alerts' = Append(alerts, NewAlert(o, severity, now + skew))
           /\ active_alerts' = DictSet(active_alerts, o, o)
           /\ caller' = [pc |-> "l166", alert |-> o]
    /\ UNCHANGED <<now, recipients, alert_history, alert_queue, escalation_config,
                   worker, sender_calls, timers, tickets>>

\* A send_alert that stamps the alert with the time of submission.
SendAlertPutStamped ==
    /\ caller.pc = "l166"
    /\ alerts' = [alerts EXCEPT ![caller.alert].timestamp = now,
                                ![caller.alert].metadata =
                                    DictSet(@, "submitted", TRUE)]
    /\ alert_queue' = QueuePut(alert_queue, <<caller.alert, tickets + 1>>)
    /\ tickets' = tickets + 1
    /\ caller' = [caller EXCEPT !.pc = "l169"]
    /\ UNCHANGED <<now, recipients, active_alerts, alert_history,
                   escalation_config, worker, sender_calls, timers>>

\* send_alert line 166: self.alert_queue.put(alert).
SendAlertPut ==
    /\ caller.pc = "l166"
    /\ alert_queue' = QueuePut(alert_queue, <<caller.alert, tickets + 1>>)
    /\ tickets' = tickets + 1
    /\ caller' = [caller EXCEPT !.pc = "l169"]
    /\ UNCHANGED <<now, alerts, recipients, active_alerts, alert_history,
                   escalation_config, worker, sender_calls, timers>>

\* A history that stores a copy of the alert made at submission.
SendAlertAppendSnapshot ==
    /\ caller.pc = "l169"
    /\ alerts' = Append(alerts, alerts[caller.alert])
    /\ alert_history' = Append(alert_history, Len(alerts) + 1)
    /\ caller' = CallerIdle
    /\ UNCHANGED <<now, recipients, active_alerts, alert_queue,
                   escalation_config, worker, sender_calls, timers, tickets>>

\* send_alert line 169: self.alert_history.append(alert); the call returns.
SendAlertAppend ==
    /\ caller.pc = "l169"
    /\ alert_history' = Append(alert_history, caller.alert)
    /\ caller' = CallerIdle
    /\ UNCHANGED <<now, alerts, recipients, active_alerts, alert_queue,
                   escalation_config, worker, sender_calls, timers, tickets>>

\* Line 308 (and 326): alert_id in self.active_alerts.
InActiveAlerts(alert_id) == alert_id \in DOMAIN active_alerts

\* An acknowledgement that records no time.
AcknowledgedNoTime(alert, acknowledged_by, at) ==
    [alert EXCEPT !.acknowledged = TRUE,
                  !.acknowledged_by = Some(acknowledged_by)]

\* Lines 310-312: the three ack fields of the alert are set.
Acknowledged(alert, acknowledged_by, at) ==
    [alert EXCEPT !.acknowledged = TRUE,
                  !.acknowledged_by = Some(acknowledged_by),
                  !.acknowledged_at = Some(at)]

\* An acknowledge_alert that finds the alert in the history when its id is
\* not active, and sets its ack fields again.
AcknowledgeCallAnywhere(alert_id, acknowledged_by) ==
    /\ caller.pc = "idle"
    /\ IF alert_id \in DOMAIN active_alerts
       THEN /\ alerts' = [alerts EXCEPT ![active_alerts[alert_id]] =
                            Acknowledged(@, acknowledged_by, now)]
            /\ caller' = [pc |-> "l317", alert_id |-> alert_id,
                          acknowledged_by |-> acknowledged_by]
       ELSE /\ alerts' = [o \in 1..Len(alerts) |->
                            IF o = alert_id
                            THEN Acknowledged(alerts[o], acknowledged_by, now)
                            ELSE alerts[o]]
            /\ caller' = caller
    /\ UNCHANGED <<now, recipients, active_alerts, alert_history, alert_queue,
                   escalation_config, worker, sender_calls, timers, tickets>>

\* acknowledge_alert(alert_id, acknowledged_by), lines 308-312: nothing happens
\* when the id is not active; otherwise the ack fields are set and the call
\* goes on to line 317.
AcknowledgeCall(alert_id, acknowledged_by) ==
    /\ caller.pc = "idle"
    /\ IF InActiveAlerts(alert_id)
       THEN /\ alerts' = [alerts EXCEPT ![active_alerts[alert_id]] =
                            Acknowledged(@, acknowledged_by, now)]
            /\ caller' = [pc |-> "l317", alert_id |-> alert_id,
                          acknowledged_by |-> acknowledged_by]
       ELSE /\ alerts' = alerts
            /\ caller' = caller
    /\ UNCHANGED <<now, recipients, active_alerts, alert_history, alert_queue,
                   escalation_config, worker, sender_calls, timers, tickets>>

\* An acknowledge_alert that returns without line 317.
AcknowledgeKeep ==
    /\ caller.pc = "l317"
    /\ caller' = CallerIdle
    /\ UNCHANGED <<now, alerts, recipients, active_alerts, alert_history,
                   alert_queue, escalation_config, worker, sender_calls, timers,
                   tickets>>

\* acknowledge_alert line 317: del self.active_alerts[alert_id]; the call
\* returns.
AcknowledgeDelete ==
    /\ caller.pc = "l317"
    /\ IF caller.alert_id \in DOMAIN active_alerts
       THEN /\ active_alerts' = DictDel(active_alerts, caller.alert_id)
            /\ caller' = CallerIdle
       ELSE /\ active_alerts' = active_alerts
            /\ caller' = [pc |-> "KeyError"]
    /\ UNCHANGED <<now, alerts, recipients, alert_history, alert_queue,
                   escalation_config, worker, sender_calls, timers, tickets>>

(***************************************************************************)
(* The worker thread: _process_alerts and _deliver_alert.  A delivery is    *)
(* one step per pass of the recipient loop and of the channel loop; the    *)
(* other threads run between the passes.  The worker's record holds the    *)
(* locals: the item, current_time, and the places i and j of the two       *)
(* loops.                                                                  *)
(***************************************************************************)
\* Line 175 with an empty queue: queue.Empty after the timeout, and the loop
\* continues (lines 186-187).
WorkerQueueEmpty ==
    /\ worker.pc = "l175"
    /\ alert_queue = <<>>
    /\ UNCHANGED vars

\* A worker that takes an item only when another one waits behind it.
WorkerGetBatch ==
    /\ worker.pc = "l175"
    /\ Len(alert_queue) >= 2
    /\ worker' = [pc |-> "l193", alert |-> QueueFront(alert_queue)[1],
                  ticket |-> QueueFront(alert_queue)[2], outcome |-> "none",
                  current_time |-> 0, i |-> 0, j |-> 0]
    /\ alert_queue' = QueueRest(alert_queue)
    /\ sender_calls' = <<>>
    /\ UNCHANGED <<now, alerts, recipients, active_alerts, alert_history,
                   escalation_config, caller, timers, tickets>>

\* A worker that drops an item whose alert is no longer active.
WorkerGetActiveOnly ==
    /\ worker.pc = "l175"
    /\ alert_queue # <<>>
    /\ worker' = IF InActiveAlerts(alerts[QueueFront(alert_queue)[1]].alert_id)
                 THEN [pc |-> "l193", alert |-> QueueFront(alert_queue)[1],
                       ticket |-> QueueFront(alert_queue)[2], outcome |-> "none",
                       current_time |-> 0, i |-> 0, j |-> 0]
                 ELSE [pc |-> "l175", alert |-> QueueFront(alert_queue)[1],
                       ticket |-> QueueFront(alert_queue)[2], outcome |-> "ok",
                       current_time |-> 0, i |-> 0, j |-> 0]
    /\ alert_queue' = QueueRest(alert_queue)
    /\ sender_calls' = <<>>
    /\ UNCHANGED <<now, alerts, recipients, active_alerts, alert_history,
                   escalation_config, caller, timers, tickets>>

\* Line 175 with an item: the worker takes the front of the queue and calls
\* _deliver_alert (line 176).
WorkerGet ==
    /\ worker.pc = "l175"
    /\ alert_queue # <<>>
    /\ worker' = [pc |-> "l193", alert |-> QueueFront(alert_queue)[1],
                  ticket |-> QueueFront(alert_queue)[2], outcome |-> "none",
                  current_time |-> 0, i |-> 0, j |-> 0]
    /\ alert_queue' = QueueRest(alert_queue)
    /\ sender_calls' = <<>>
    /\ UNCHANGED <<now, alerts, recipients, active_alerts, alert_history,
                   escalation_config, caller, timers, tickets>>

\* A worker that an exception stops.
WorkerStopsOnError(ticket, outcome) ==
    [pc |-> IF outcome = "error" THEN "stopped" ELSE "l175",
     alert |-> worker.alert, ticket |-> ticket, outcome |-> outcome,
     current_time |-> 0, i |-> 0, j |-> 0]

\* The worker back at line 175, after it processed the item with the given
\* ticket.  Its local variable alert keeps the item until the next get; the
\* locals of _deliver_alert are gone.
WorkerWaiting(ticket, outcome) ==
    [pc |-> "l175", alert |-> worker.alert, ticket |-> ticket,
     outcome |-> outcome, current_time |-> 0, i |-> 0, j |-> 0]

\* _deliver_alert line 193: current_time = datetime.now(); the loop of line
\* 195 starts at the first recipient.
DeliverStart ==
    /\ worker.pc = "l193"
    /\ worker' = [worker EXCEPT !.pc = "l195", !.current_time = now, !.i = 1]
    /\ UNCHANGED <<now, alerts, recipients, active_alerts, alert_history,
                   alert_queue, escalation_config, caller, sender_calls, timers,
                   tickets>>

\* A loop that visits the recipients from the last to the first.
VisitOrderFromLast(k) == Len(recipients) + 1 - k

\* Line 195, for recipient in self.recipients: the k-th recipient visited is
\* the k-th of the list.
VisitOrder(k) == k

\* The severity an alert was submitted with.
SubmittedSeverity(alert) == alert.severity0

\* Line 197: the severity tested is alert.severity, read when the recipient is
\* visited.
TestedSeverity(alert) == alert.severity

\* Lines 195-198, one pass of the recipient loop.  The list is read again at
\* every pass, so the loop reaches a recipient appended while it runs; when
\* the list is exhausted _deliver_alert returns to line 179.  An exception of
\* should_receive_alert leaves _deliver_alert and is caught at line 188; the
\* loop of line 173 goes on.  An eligible recipient with channels takes the
\* worker into the loop of line 201.
DeliverRecipient ==
    /\ worker.pc = "l195"
    /\ worker' =
         IF worker.i > Len(recipients)
         THEN [worker EXCEPT !.pc = "l179", !.current_time = 0, !.i = 0]
         ELSE LET recipient == recipients[VisitOrder(worker.i)]
                  severity == TestedSeverity(alerts[worker.alert])
              IN  IF ShouldReceiveRaises(recipient, severity, worker.current_time)
                  THEN WorkerWaiting(worker.ticket, "error")
                  ELSE IF /\ ShouldReceiveAlert(recipient, severity,
                                                worker.current_time)
                          /\ recipient.channels # <<>>
                  THEN [worker EXCEPT !.pc = "l201", !.j = 1]
                  ELSE [worker EXCEPT !.i = @ + 1]
    /\ UNCHANGED <<now, alerts, recipients, active_alerts, alert_history,
                   alert_queue, escalation_config, caller, sender_calls, timers,
                   tickets>>

\* What line 203-210 do with a channel: no handler ("missing"), or the
\* handler is called and returns or raises.  Only the senders of
\* FailingChannels raise, and each call raises or not on its own.
ChannelOutcomes(channel) ==
    IF channel \notin HandledChannels THEN {"missing"}
    ELSE IF channel \in FailingChannels THEN {"returned", "raised"}
    ELSE {"returned"}

\* A channel loop that a raising sender ends.
NextChannelAbortOnRaise(recipient, j, outcome) ==
    IF outcome = "raised" THEN Len(recipient.channels) + 1 ELSE j + 1

\* A channel loop that a channel without handler ends.
NextChannelStopAtMissing(recipient, j, outcome) ==
    IF outcome = "missing" THEN Len(recipient.channels) + 1 ELSE j + 1

\* Lines 201-210: after the j-th channel the loop goes on with the next one,
\* whether the handler returned, raised (caught at line 209) or is missing
\* (line 207).
NextChannel(recipient, j, outcome) == j + 1

\* Lines 201-210, one pass of the channel loop for the recipient being
\* visited: the handler of the channel, if there is one, is called with the
\* alert and the recipient.  sender_calls records the call: the recipient's
\* name and place in the list, the channel and its place in the recipient's
\* list, the severity the alert has then and whether the handler raised.
\* After the last channel the worker is back at line 195.
DeliverChannel ==
    /\ worker.pc = "l201"
    /\ LET index == VisitOrder(worker.i)
           recipient == recipients[index]
           channel == recipient.channels[worker.j]
       IN  \E outcome \in ChannelOutcomes(channel) :
              /\ sender_calls' =
                   IF outcome = "missing" THEN sender_calls
                   ELSE Append(sender_calls,
                               [recipient |-> recipient.name,
                                channel |-> channel,
                                severity |-> alerts[worker.alert].severity,
                                raised |-> outcome = "raised",
                                recipient_index |-> index,
                                channel_index |-> worker.j])
              /\ worker' =
                   LET next == NextChannel(recipient, worker.j, outcome)
                   IN  IF next > Len(recipient.channels)
                       THEN [worker EXCEPT !.pc = "l195", !.i = @ + 1, !.j = 0]
                       ELSE [worker EXCEPT !.j = next]
    /\ UNCHANGED <<now, alerts, recipients, active_alerts, alert_history,
                   alert_queue, escalation_config, caller, timers, tickets>>

\* threading.Timer(timeout, self._check_escalation, args=[alert_id]).start()
NewTimer(alert_id, due) ==
    [alert_id |-> alert_id, due |-> due, pc |-> "wait", alert |-> 0,
     old_severity |-> 0, old_count |-> 0]

\* A worker that arms the timer whatever escalation_config['enabled'] holds.
WorkerArmAlways ==
    /\ worker.pc = "l179"
    /\ timers' = timers (+) SetToBag({NewTimer(alerts[worker.alert].alert_id,
                                               now + escalation_config.timeout)})
    /\ worker' = WorkerWaiting(worker.ticket, "ok")
    /\ sender_calls' = <<>>
    /\ UNCHANGED <<now, alerts, recipients, active_alerts, alert_history,
                   alert_queue, escalation_config, caller, tickets>>

\* Lines 179-184: the escalation timer is armed when escalation is enabled.
WorkerArm ==
    /\ worker.pc = "l179"
    /\ timers' = IF escalation_config.enabled
                 THEN timers (+) SetToBag({NewTimer(alerts[worker.alert].alert_id,
                                                    now + escalation_config.timeout)})
                 ELSE timers
    /\ worker' = WorkerWaiting(worker.ticket, "ok")
    /\ sender_calls' = <<>>
    /\ UNCHANGED <<now, alerts, recipients, active_alerts, alert_history,
                   alert_queue, escalation_config, caller, tickets>>

\* Lines 180-184 raise (threading.Timer cannot start a thread, or the
\* configured timeout is no timedelta): the exception is caught at line 188
\* and the loop of line 173 goes on.
WorkerArmFails ==
    /\ worker.pc = "l179"
    /\ escalation_config.enabled
    /\ worker' = WorkerWaiting(worker.ticket, "error")
    /\ sender_calls' = <<>>
    /\ UNCHANGED <<now, alerts, recipients, active_alerts, alert_history,
                   alert_queue, escalation_config, caller, timers, tickets>>

\* The steps of the worker thread.
WorkerThread ==
    \/ WorkerQueueEmpty
    \/ WorkerGet
    \/ DeliverStart
    \/ DeliverRecipient
    \/ DeliverChannel
    \/ WorkerArm
    \/ WorkerArmFails

(***************************************************************************)
(* The timer threads: _check_escalation and _escalate_alert.               *)
(***************************************************************************)
\* The bag of timers with thread t replaced by u.
TimerStep(t, u) == (timers (-) SetToBag({t})) (+) SetToBag({u})

\* A timer that is periodic: its thread waits for the next interval.
TimerRepeats(t) ==
    TimerStep(t, NewTimer(t.alert_id, now + escalation_config.timeout))

\* The bag of timers after thread t has returned.
TimerReturn(t) == timers (-) SetToBag({t})

\* _check_escalation without the test of lines 326-327.
CheckEscalationNoTest(t) ==
    /\ t.pc = "wait"
    /\ now >= t.due
    /\ timers' = TimerStep(t, [t EXCEPT !.pc = "l345", !.alert = t.alert_id,
                    !.old_severity = alerts[t.alert_id].severity,
                    !.old_count = DictGet(alerts[t.alert_id].metadata,
                                          "escalation_count", 0)])
    /\ UNCHANGED <<now, alerts, recipients, active_alerts, alert_history,
                   alert_queue, escalation_config, caller, worker, sender_calls,
                   tickets>>

\* The interval of timer t is over and its thread runs _check_escalation lines
\* 326-327: it returns when the id is not active.
CheckEscalation(t) ==
    /\ t.pc = "wait"
    /\ now >= t.due
    /\ timers' = IF InActiveAlerts(t.alert_id)
                 THEN TimerStep(t, [t EXCEPT !.pc = "l329"])
                 ELSE TimerReturn(t)
    /\ UNCHANGED <<now, alerts, recipients, active_alerts, alert_history,
                   alert_queue, escalation_config, caller, worker, sender_calls,
                   tickets>>

\* A test that asks for more than the timeout.
TimeoutExceededStrict(alert) == now - alert.timestamp > escalation_config.timeout

\* Lines 332-333: datetime.now() - alert.timestamp >= timeout.
TimeoutExceeded(alert) == now - alert.timestamp >= escalation_config.timeout

\* _check_escalation lines 329-335: alert = self.active_alerts[alert_id], where
\* a KeyError ends the thread (its record stays in the bag with pc "KeyError",
\* the trace of the uncaught exception; the thread itself is gone); then
\* _escalate_alert is called when the timeout is exceeded.  The thread
\* remembers the alert's severity and count on entry.
CheckEscalationLookup(t) ==
    /\ t.pc = "l329"
    /\ timers' =
         IF t.alert_id \notin DOMAIN active_alerts
         THEN TimerStep(t, [t EXCEPT !.pc = "KeyError"])
         ELSE LET o == active_alerts[t.alert_id]
              IN  IF TimeoutExceeded(alerts[o])
                  THEN TimerStep(t, [t EXCEPT
                         !.pc = "l345",
                         !.alert = o,
                         !.old_severity = alerts[o].severity,
                         !.old_count = DictGet(alerts[o].metadata,
                                               "escalation_count", 0)])
                  ELSE TimerReturn(t)
    /\ UNCHANGED <<now, alerts, recipients, active_alerts, alert_history,
                   alert_queue, escalation_config, caller, worker, sender_calls,
                   tickets>>

\* A raise without the test for CRITICAL.
RaisedSeverityUnchecked(severity) == severity + 1

\* Lines 345-346: the severity one level up, unless it is CRITICAL.
RaisedSeverity(severity) == IF severity # CRITICAL THEN severity + 1 ELSE severity

\* An escalation that drops an alert already at CRITICAL from the active set.
EscalateSeverityRetire(t) ==
    /\ t.pc = "l345"
    /\ alerts' = [alerts EXCEPT ![t.alert].severity = RaisedSeverity(@)]
    /\ active_alerts' = IF alerts[t.alert].severity = CRITICAL
                        THEN DictDel(active_alerts, alerts[t.alert].alert_id)
                        ELSE active_alerts
    /\ timers' = TimerStep(t, [t EXCEPT !.pc = "l349"])
    /\ UNCHANGED <<now, recipients, alert_history, alert_queue,
                   escalation_config, caller, worker, sender_calls, tickets>>

\* _escalate_alert lines 345-346.
EscalateSeverity(t) ==
    /\ t.pc = "l345"
    /\ alerts' = [alerts EXCEPT ![t.alert].severity = RaisedSeverity(@)]
    /\ timers' = TimerStep(t, [t EXCEPT !.pc = "l349"])
    /\ UNCHANGED <<now, recipients, active_alerts, alert_history, alert_queue,
                   escalation_config, caller, worker, sender_calls, tickets>>

\* _escalate_alert line 349: alert.metadata['escalated'] = True.
EscalateFlag(t) ==
    /\ t.pc = "l349"
    /\ alerts' = [alerts EXCEPT ![t.alert].metadata = DictSet(@, "escalated", TRUE)]
    /\ timers' = TimerStep(t, [t EXCEPT !.pc = "l350"])
    /\ UNCHANGED <<now, recipients, active_alerts, alert_history, alert_queue,
                   escalation_config, caller, worker, sender_calls, tickets>>

\* Line 350: metadata.get('escalation_count', 0) + 1.
NextEscalationCount(metadata) == DictGet(metadata, "escalation_count", 0) + 1

\* _escalate_alert line 350.
EscalateCount(t) ==
    /\ t.pc = "l350"
    /\ alerts' = [alerts EXCEPT ![t.alert].metadata =
                     DictSet(@, "escalation_count", NextEscalationCount(@))]
    /\ timers' = TimerStep(t, [t EXCEPT !.pc = "l353"])
    /\ UNCHANGED <<now, recipients, active_alerts, alert_history, alert_queue,
                   escalation_config, caller, worker, sender_calls, tickets>>

\* An escalation that delivers the alert in the timer thread itself.
EscalateDeliverDirect(t) ==
    /\ t.pc = "l353"
    /\ timers' = TimerStep(t, [t EXCEPT !.pc = "l193"])
    /\ UNCHANGED <<now, alerts, recipients, active_alerts, alert_history,
                   alert_queue, escalation_config, caller, worker, sender_calls,
                   tickets>>

\* _escalate_alert line 353: self.alert_queue.put(alert).  The item is in the
\* queue, and the worker can take it, while the thread goes on to line 355.
EscalatePut(t) ==
    /\ t.pc = "l353"
    /\ alert_queue' = QueuePut(alert_queue, <<t.alert, tickets + 1>>)
    /\ tickets' = tickets + 1
    /\ timers' = TimerStep(t, [t EXCEPT !.pc = "l355"])
    /\ UNCHANGED <<now, alerts, recipients, active_alerts, alert_history,
                   escalation_config, caller, worker, sender_calls>>

\* _escalate_alert line 355: the escalation is logged, the callback returns
\* and the thread ends.
EscalateLog(t) ==
    /\ t.pc = "l355"
    /\ timers' = TimerReturn(t)
    /\ UNCHANGED <<now, alerts, recipients, active_alerts, alert_history,
                   alert_queue, escalation_config, caller, worker, sender_calls,
                   tickets>>

\* The steps of timer thread t.
TimerThread(t) ==
    \/ CheckEscalation(t)
    \/ CheckEscalationLookup(t)
    \/ EscalateSeverity(t)
    \/ EscalateFlag(t)
    \/ EscalateCount(t)
    \/ EscalatePut(t)
    \/ EscalateLog(t)

(***************************************************************************)
(* The specification.                                                      *)
(***************************************************************************)
\* The steps of the manager's threads and of the calls in progress.
Manager ==
    \/ \E k \in 1..Len(RecipientPool) : AddRecipient(RecipientPool[k])
    \/ SendAlertPut
    \/ SendAlertAppend
    \/ \E alert_id \in 1..MaxAlerts, acknowledged_by \in Actors :
          AcknowledgeCall(alert_id, acknowledged_by)
    \/ AcknowledgeDelete
    \/ WorkerThread
    \/ \E t \in BagToSet(timers) : TimerThread(t)

Next ==
    \/ Tick(ShortTicks)
    \/ \E severity \in InitialSeverities, skew \in TimestampSkews :
          SendAlertCall(MaxAlerts, severity, skew)
    \/ Manager

NextLong ==
    \/ Tick(LongTicks)
    \/ \E severity \in InitialSeverities, skew \in TimestampSkews :
          SendAlertCall(1, severity, skew)
    \/ Manager

\* MaxAlerts alerts, ShortTicks ticks.
Spec == Init /\ [][Next]_vars

\* One alert, LongTicks ticks.
SpecLong == Init /\ [][NextLong]_vars

\* The worker thread runs whenever it can: it is scheduled fairly, and the
\* senders return or raise.
WorkerFairness ==
    /\ WF_vars(WorkerGet)
    /\ WF_vars(DeliverStart)
    /\ WF_vars(DeliverRecipient)
    /\ WF_vars(DeliverChannel)
    /\ WF_vars(WorkerArm \/ WorkerArmFails)

\* MaxAlerts alerts of one severity, stamped with the time of construction,
\* for ShortTicks ticks.
NextQueue ==
    \/ Tick(ShortTicks)
    \/ SendAlertCall(MaxAlerts, HIGH, 0)
    \/ Manager

SpecQueue == Init /\ [][NextQueue]_vars

\* SpecQueue and SpecLong with a worker that is scheduled fairly.
FairSpecQueue == SpecQueue /\ WorkerFairness
FairSpecLong == SpecLong /\ WorkerFairness

\* escalation_config is a public attribute that __init__ fills with enabled
\* True; the application that wants no escalation sets 'enabled' to False
\* when it configures the manager, before it submits alerts.
EscalationConfigs ==
    {DefaultEscalationConfig, [DefaultEscalationConfig EXCEPT !.enabled = FALSE]}

\* The manager after construction and configuration.
InitConfig ==
    /\ now = 0
    /\ alerts = <<>>
    /\ recipients = <<>>
    /\ active_alerts = EmptyDict
    /\ alert_history = <<>>
    /\ alert_queue = <<>>
    /\ escalation_config \in EscalationConfigs
    /\ caller = CallerIdle
    /\ worker = WorkerStart
    /\ sender_calls = <<>>
    /\ timers = EmptyBag
    /\ tickets = 0

\* One alert, LongTicks ticks, escalation enabled or disabled.
SpecConfig == InitConfig /\ [][NextLong]_vars

(***************************************************************************)
(* Deliveries as a function of the recipient list, the severity and the    *)
(* time of day: the recipients are configured in any order, with any       *)
(* threshold and active hours, and the client submits alerts that the      *)
(* worker delivers.                                                        *)
(***************************************************************************)
\* active_hours = {'start': 'HH:MM', 'end': 'HH:MM'}, the bounds given in
\* minutes since midnight.
Window(start, end) == [start |-> StrfHM(start), end |-> StrfHM(end)]

\* AlertRecipient(name, channels, severity_threshold, active_hours).
Recipient(name, channels, severity_threshold, active_hours) ==
    [name |-> name, channels |-> channels,
     severity_threshold |-> severity_threshold, active_hours |-> active_hours]

\* Recipients of every kind: without active hours, with a day window, with a
\* window that wraps midnight, and with active hours that lack 'end' (the
\* eligibility check of this one raises from 09:00 on and is false before).
DeliverPool ==
    { RecipientPool[1], RecipientPool[2],
      Recipient("day", <<"sms", "console">>, LOW, Window(9 * 60, 17 * 60)),
      Recipient("night", <<"console">>, LOW, Window(22 * 60, 6 * 60)),
      Recipient("broken", <<"console">>, HIGH, [start |-> StrfHM(9 * 60)]) }

\* The bounds of the windows of the probe recipients: 09:00, 17:00, 22:00.
WindowEdges == {9 * 60, 17 * 60, 22 * 60}

\* One recipient with any threshold and any window over WindowEdges, or none.
ProbeRecipients ==
    { Recipient("probe", <<"console">>, threshold, hours) :
        threshold \in AlertSeverity,
        hours \in {EmptyDict} \cup
                  {Window(s, e) : s \in WindowEdges, e \in WindowEdges} }

\* A recipient whose active_hours lacks 'start'.
NoStartRecipient ==
    Recipient("nostart", <<"console">>, HIGH, [end |-> StrfHM(17 * 60)])

\* A second recipient object with the name of the first of the pool, with
\* other channels and another threshold.
SameNameRecipient == Recipient("ops", <<"sms", "console">>, LOW, EmptyDict)

\* The recipient lists: a probe alone, up to two recipients of the pool in
\* either order, the recipient without 'start', alone, before or after
\* another recipient, one recipient added twice, and two recipients of one
\* name in either order.
DeliveryLists ==
    {<<>>} \cup {<<r>> : r \in ProbeRecipients \cup DeliverPool}
    \cup UNION {{<<r, s>> : s \in DeliverPool \ {r}} : r \in DeliverPool}
    \cup {<<NoStartRecipient>>, <<RecipientPool[1], NoStartRecipient>>,
          <<NoStartRecipient, RecipientPool[1]>>}
    \cup {<<RecipientPool[1], RecipientPool[1]>>,
          <<RecipientPool[1], SameNameRecipient>>,
          <<SameNameRecipient, RecipientPool[1]>>}

\* The clock readings at which alerts are submitted: 08:50, 09:00, 10:00,
\* 17:00, 17:01, 23:00, 01:00.
DeliveryTimes == {0, 10, 70, 490, 491, 850, 970}

\* The manager after construction and the add_recipient calls of the
\* configuration, at one of the times.
InitDeliver ==
    /\ now \in DeliveryTimes
    /\ recipients \in DeliveryLists
    /\ alerts = <<>>
    /\ active_alerts = EmptyDict
    /\ alert_history = <<>>
    /\ alert_queue = <<>>
    /\ escalation_config = DefaultEscalationConfig
    /\ caller = CallerIdle
    /\ worker = WorkerStart
    /\ sender_calls = <<>>
    /\ timers = EmptyBag
    /\ tickets = 0

NextDeliver ==
    \/ \E severity \in AlertSeverity : SendAlertCall(MaxAlerts, severity, 0)
    \/ SendAlertPut
    \/ SendAlertAppend
    \/ WorkerThread

\* Submissions and deliveries, no clock tick.
SpecDeliver == InitDeliver /\ [][NextDeliver]_vars

\* A timer thread whose interval is over runs, and runs on, whenever it can.
TimerFairness == WF_vars(\E t \in BagToSet(timers) : TimerThread(t))

\* The clock advances while a timer waits for it.  Deliveries and callbacks
\* take far less than one timeout, so the clock is read at the multiples of
\* the timeout at which a timer comes due.
TickToDue ==
    /\ \E t \in BagToSet(timers) : t.pc = "wait" /\ t.due > now
    /\ Tick(LongTicks)

\* One alert stamped with the time of its construction, followed for
\* LongTicks timeouts.
NextEscalate ==
    \/ TickToDue
    \/ \E severity \in InitialSeverities : SendAlertCall(1, severity, 0)
    \/ Manager

\* The manager after construction, with no recipient yet or with the
\* recipient whose active_hours lacks 'start'.
InitEscalate ==
    /\ now = 0
    /\ alerts = <<>>
    /\ recipients \in {<<>>, <<NoStartRecipient>>}
    /\ active_alerts = EmptyDict
    /\ alert_history = <<>>
    /\ alert_queue = <<>>
    /\ escalation_config = DefaultEscalationConfig
    /\ caller = CallerIdle
    /\ worker = WorkerStart
    /\ sender_calls = <<>>
    /\ timers = EmptyBag
    /\ tickets = 0

SpecEscalate == InitEscalate /\ [][NextEscalate]_vars

\* SpecEscalate with a worker and timer threads that are scheduled fairly and
\* a clock that does not stop while a timer waits.
FairSpecEscalate ==
    SpecEscalate /\ WorkerFairness /\ TimerFairness /\ WF_vars(TickToDue)

(***************************************************************************)
(* get_alert_statistics, called by the client thread.  It takes no lock:   *)
(* the lines that read what only client calls write (the history, the      *)
(* active set, the ack fields) are one step, and each pass of line 381      *)
(* over the history, which reads the severities that timer threads write,   *)
(* is a step of its own.  A mean is the pair of a sum and a count.          *)
(***************************************************************************)
\* Line 379: len([a for a in self.alert_history if a.acknowledged]).
RECURSIVE AcknowledgedIn(_)
AcknowledgedIn(history) ==
    IF history = <<>> THEN 0
    ELSE (IF alerts[Head(history)].acknowledged THEN 1 ELSE 0)
         + AcknowledgedIn(Tail(history))

\* Line 381: len([a for a in self.alert_history if a.severity == severity]).
RECURSIVE WithSeverity(_, _)
WithSeverity(history, severity) ==
    IF history = <<>> THEN 0
    ELSE (IF alerts[Head(history)].severity = severity THEN 1 ELSE 0)
         + WithSeverity(Tail(history), severity)

\* Lines 389-393: the minutes from timestamp to acknowledged_at of the alerts
\* that are acknowledged and have acknowledged_at set, in history order.
RECURSIVE AckTimes(_)
AckTimes(history) ==
    IF history = <<>> THEN <<>>
    ELSE LET alert == alerts[Head(history)]
         IN  (IF alert.acknowledged /\ alert.acknowledged_at # None
              THEN <<alert.acknowledged_at[1] - alert.timestamp>>
              ELSE <<>>) \o AckTimes(Tail(history))

\* sum(ack_times)
RECURSIVE Sum(_)
Sum(seq) == IF seq = <<>> THEN 0 ELSE Head(seq) + Sum(Tail(seq))

\* A mean over every alert of the history.
CalculateAvgOverHistory ==
    LET ack_times == AckTimes(alert_history)
    IN  IF ack_times # <<>>
        THEN [num |-> Sum(ack_times), den |-> Len(alert_history)]
        ELSE [num |-> 0, den |-> 1]

\* _calculate_avg_ack_time, line 395: sum(ack_times) / len(ack_times) if
\* ack_times else 0.0.
CalculateAvgAckTime ==
    LET ack_times == AckTimes(alert_history)
    IN  IF ack_times # <<>>
        THEN [num |-> Sum(ack_times), den |-> Len(ack_times)]
        ELSE [num |-> 0, den |-> 1]

\* get_alert_statistics lines 377-379.
GetAlertStatisticsCall ==
    /\ caller.pc = "idle"
    /\ caller' = [pc |-> "l381",
                  stats |-> [total_alerts |-> Len(alert_history),
                             active_alerts |-> Cardinality(DOMAIN active_alerts),
                             acknowledged_alerts |-> AcknowledgedIn(alert_history),
                             by_severity |-> EmptyDict]]
    /\ UNCHANGED <<now, alerts, recipients, active_alerts, alert_history,
                   alert_queue, escalation_config, worker, sender_calls, timers,
                   tickets>>

\* get_alert_statistics lines 380-383: the pass over the history for the next
\* severity of AlertSeverity.
GetAlertStatisticsBySeverity ==
    /\ caller.pc = "l381"
    /\ LET by_severity == caller.stats.by_severity
           severity == Cardinality(DOMAIN by_severity) + LOW
       IN  caller' = [caller EXCEPT
              !.stats.by_severity =
                  DictSet(by_severity, severity,
                          WithSeverity(alert_history, severity)),
              !.pc = IF severity = CRITICAL THEN "l384" ELSE "l381"]
    /\ UNCHANGED <<now, alerts, recipients, active_alerts, alert_history,
                   alert_queue, escalation_config, worker, sender_calls, timers,
                   tickets>>

\* get_alert_statistics lines 384-385: the mean is computed and the dict is
\* returned to the client.
GetAlertStatisticsReturn ==
    /\ caller.pc = "l384"
    /\ caller' = [pc |-> "l385",
                  stats |-> [total_alerts |-> caller.stats.total_alerts,
                             active_alerts |-> caller.stats.active_alerts,
                             acknowledged_alerts |-> caller.stats.acknowledged_alerts,
                             by_severity |-> caller.stats.by_severity,
                             average_acknowledgment_time |-> CalculateAvgAckTime]]
    /\ UNCHANGED <<now, alerts, recipients, active_alerts, alert_history,
                   alert_queue, escalation_config, worker, sender_calls, timers,
                   tickets>>

\* The client has the dict and goes on.
GetAlertStatisticsDone ==
    /\ caller.pc = "l385"
    /\ caller' = CallerIdle
    /\ UNCHANGED <<now, alerts, recipients, active_alerts, alert_history,
                   alert_queue, escalation_config, worker, sender_calls, timers,
                   tickets>>

\* The histories of the statistics: up to MaxStatAlerts alerts stamped 0, of
\* severity LOW or CRITICAL, each not acknowledged, acknowledged by alice at
\* minute 2, or acknowledged by bob at minute 4.
AckChoices == {None, <<"alice", 2>>, <<"bob", 4>>}
StatAlertChoices == [severity : {LOW, CRITICAL}, ack : AckChoices]
StatAlert(id, choice) ==
    IF choice.ack = None
    THEN NewAlert(id, choice.severity, 0)
    ELSE Acknowledged(NewAlert(id, choice.severity, 0), choice.ack[1],
                      choice.ack[2])

\* The manager with the second recipient of the pool, one timeout after
\* these alerts were submitted and delivered and some of them acknowledged:
\* every alert is in the history, the unacknowledged ones are active and
\* their timers are due, and the timers of the acknowledged ones have fired
\* and returned.
InitStats ==
    /\ now = EscalationTimeout
    /\ \E n \in 0..MaxStatAlerts : \E choices \in [1..n -> StatAlertChoices] :
          /\ alerts = [o \in 1..n |-> StatAlert(o, choices[o])]
          /\ active_alerts = [o \in {k \in 1..n : choices[k].ack = None} |-> o]
          /\ alert_history = [o \in 1..n |-> o]
          /\ timers = SetToBag({NewTimer(o, EscalationTimeout) :
                                    o \in {k \in 1..n : choices[k].ack = None}})
          /\ worker = IF n = 0 THEN WorkerStart
                      ELSE [pc |-> "l175", alert |-> n, ticket |-> n,
                            outcome |-> "ok", current_time |-> 0, i |-> 0,
                            j |-> 0]
          /\ tickets = n
    /\ recipients = <<RecipientPool[2]>>
    /\ alert_queue = <<>>
    /\ escalation_config = DefaultEscalationConfig
    /\ caller = CallerIdle
    /\ sender_calls = <<>>

NextStats ==
    \/ GetAlertStatisticsCall
    \/ GetAlertStatisticsBySeverity
    \/ GetAlertStatisticsReturn
    \/ GetAlertStatisticsDone
    \/ WorkerThread
    \/ \E t \in BagToSet(timers) : TimerThread(t)

\* Statistics calls while the timers that are due fire.
SpecStats == InitStats /\ [][NextStats]_vars

(***************************************************************************)
(* get_active_alerts, called by the client thread, and a client that makes *)
(* every call of the manager.                                              *)
(***************************************************************************)
\* list(self.active_alerts.values()), line 367: the objects in the order their
\* ids were inserted, which is the order of the ids, as ids are numbered in
\* the order of submission.
RECURSIVE DictValues(_)
DictValues(d) ==
    IF DOMAIN d = {} THEN <<>>
    ELSE LET first == CHOOSE id \in DOMAIN d : \A other \in DOMAIN d : id <= other
         IN  <<d[first]>> \o DictValues(DictDel(d, first))

\* Line 370: [a for a in alerts if a.severity == severity].
RECURSIVE FilterSeverity(_, _)
FilterSeverity(list, severity) ==
    IF list = <<>> THEN <<>>
    ELSE (IF alerts[Head(list)].severity = severity THEN <<Head(list)>> ELSE <<>>)
         \o FilterSeverity(Tail(list), severity)

\* The severity arguments of get_active_alerts: None, or a severity.
SeverityFilters == {None} \cup {Some(severity) : severity \in {HIGH, CRITICAL}}

\* get_active_alerts(severity), line 367.
GetActiveAlertsCall(severity) ==
    /\ caller.pc = "idle"
    /\ caller' = [pc |-> "l369", severity |-> severity,
                  alerts |-> DictValues(active_alerts)]
    /\ UNCHANGED <<now, alerts, recipients, active_alerts, alert_history,
                   alert_queue, escalation_config, worker, sender_calls, timers,
                   tickets>>

\* get_active_alerts lines 369-372: the list is filtered when a severity was
\* given (every AlertSeverity is truthy), and returned.
GetActiveAlertsFilter ==
    /\ caller.pc = "l369"
    /\ caller' = [pc |-> "l372",
                  alerts |-> IF caller.severity # None
                             THEN FilterSeverity(caller.alerts, caller.severity[1])
                             ELSE caller.alerts]
    /\ UNCHANGED <<now, alerts, recipients, active_alerts, alert_history,
                   alert_queue, escalation_config, worker, sender_calls, timers,
                   tickets>>

\* The client has the list and goes on.
GetActiveAlertsDone ==
    /\ caller.pc = "l372"
    /\ caller' = CallerIdle
    /\ UNCHANGED <<now, alerts, recipients, active_alerts, alert_history,
                   alert_queue, escalation_config, worker, sender_calls, timers,
                   tickets>>

\* The queries of the client.
Queries ==
    \/ \E severity \in SeverityFilters : GetActiveAlertsCall(severity)
    \/ GetActiveAlertsFilter
    \/ GetActiveAlertsDone
    \/ GetAlertStatisticsCall
    \/ GetAlertStatisticsBySeverity
    \/ GetAlertStatisticsReturn
    \/ GetAlertStatisticsDone

NextQueries ==
    \/ Tick(QueryTicks)
    \/ \E severity \in {HIGH, CRITICAL} : SendAlertCall(1, severity, 0)
    \/ Manager
    \/ Queries

\* One alert for QueryTicks ticks, with every call of the manager.
SpecQueries == Init /\ [][NextQueries]_vars

NextCounts ==
    \/ NextQueue
    \/ GetAlertStatisticsCall
    \/ GetAlertStatisticsBySeverity
    \/ GetAlertStatisticsReturn
    \/ GetAlertStatisticsDone

\* MaxAlerts alerts for ShortTicks ticks, with statistics calls.
SpecCounts == Init /\ [][NextCounts]_vars

(***************************************************************************)
(* Properties.                                                             *)
(***************************************************************************)
\* metadata.get('escalation_count', 0) of alert o.
EscalationCount(o) == DictGet(alerts[o].metadata, "escalation_count", 0)

\* The number of entries of alert_history that are alert o.
TimesInHistory(h, o) == Cardinality({k \in 1..Len(h) : h[k] = o})

\* The number of keys of active_alerts that hold alert o.
TimesActive(a, o) == Cardinality({id \in DOMAIN a : a[id] = o})

\* The timer threads that are inside _escalate_alert.
Escalating ==
    {t \in BagToSet(timers) : t.pc \in {"l345", "l349", "l350", "l353", "l355"}}

\* The lines of _deliver_alert: a thread whose position is one of them is
\* delivering.
DeliveryLines == {"l193", "l195", "l201"}

\* Lines 176-184: the worker holds an item it took from the queue.
ProcessingLines == DeliveryLines \cup {"l179"}

\* The positions of the worker inside the loop of line 173.
WorkerLines == {"l175"} \cup ProcessingLines

\* _deliver_alert returns (the recipient loop is exhausted), or ends by
\* returning or raising.
DeliveryReturns == worker.pc \in DeliveryLines /\ worker'.pc = "l179"
DeliveryEnds == worker.pc \in DeliveryLines /\ worker'.pc \notin DeliveryLines

\* The place of a handler call in the configuration: the index of its
\* recipient in the recipient list and of its channel in the recipient's list.
RecipientIndex(call) == call.recipient_index
ChannelIndex(call) == call.channel_index
Place(call) == <<RecipientIndex(call), ChannelIndex(call)>>
Places(calls) == [k \in 1..Len(calls) |-> Place(calls[k])]

\* Place p comes before place q in the order of the two loops.
PlaceBefore(p, q) == p[1] < q[1] \/ (p[1] = q[1] /\ p[2] < q[2])

\* The places of the channels with a handler of the recipients at the given
\* indices.
HandledPlaces(indices) ==
    UNION {{<<i, j>> : j \in {c \in 1..Len(recipients[i].channels) :
                                recipients[i].channels[c] \in HandledChannels}} :
           i \in indices}

\* The (recipient, channel) pairs of a sequence of handler calls.
Pairs(calls) ==
    [k \in 1..Len(calls) |-> <<calls[k].recipient, calls[k].channel>>]

\* The set of items of a sequence.
Range(seq) == {seq[k] : k \in 1..Len(seq)}

\* C1: no alert of the active set is marked acknowledged.  The code marks the
\* alert at line 310 and removes it at line 317, with no lock between.
C1_ActiveNeverAcknowledged ==
    \A id \in DOMAIN active_alerts : ~ alerts[active_alerts[id]].acknowledged

\* C2: when send_alert returns, the alert is once in the active set and once in
\* the history; when acknowledge_alert returns after finding it active, it is
\* out of the active set, still once in the history, and its ack fields name
\* the actor and a time; and whenever no call is in progress every alert is
\* once in the history and active exactly when it is not acknowledged.
C2_SubmitThenAcknowledge ==
    /\ [](caller.pc = "idle" =>
            \A o \in 1..Len(alerts) :
               /\ TimesInHistory(alert_history, o) = 1
               /\ TimesActive(active_alerts, o) =
                    (IF alerts[o].acknowledged THEN 0 ELSE 1)
               /\ alerts[o].acknowledged =>
                    /\ alerts[o].acknowledged_by # None
                    /\ alerts[o].acknowledged_at # None)
    /\ [][caller.pc = "l169" /\ caller'.pc = "idle" =>
            /\ TimesActive(active_alerts', caller.alert) = 1
            /\ TimesInHistory(alert_history', caller.alert) = 1]_vars
    /\ [][caller.pc = "l317" /\ caller'.pc = "idle" =>
            /\ TimesActive(active_alerts', caller.alert_id) = 0
            /\ TimesInHistory(alert_history', caller.alert_id) = 1
            /\ alerts'[caller.alert_id].acknowledged
            /\ alerts'[caller.alert_id].acknowledged_by = Some(caller.acknowledged_by)
            /\ alerts'[caller.alert_id].acknowledged_at # None]_vars

\* An alert was escalated and then acknowledged, and the call has returned.
C2_Witness ==
    /\ caller.pc = "idle"
    /\ \E o \in 1..Len(alerts) :
          /\ alerts[o].acknowledged
          /\ alerts[o].acknowledged_by = Some("bob")
          /\ EscalationCount(o) >= 1
          /\ o \notin DOMAIN active_alerts
          /\ TimesInHistory(alert_history, o) = 1

\* C3: acknowledge_alert with an id that is not active changes nothing.
C3_AcknowledgeInactiveIsNoOp ==
    [][\A alert_id \in 1..MaxAlerts, acknowledged_by \in Actors :
          (alert_id \notin DOMAIN active_alerts
             /\ AcknowledgeCall(alert_id, acknowledged_by))
          => UNCHANGED vars]_vars

\* The client can acknowledge an alert a second time, as another actor, and
\* can acknowledge an id it never submitted.
C3_Witness ==
    /\ caller.pc = "idle"
    /\ Len(alerts) = 1
    /\ alerts[1].acknowledged
    /\ alerts[1].acknowledged_by = Some("alice")
    /\ 1 \notin DOMAIN active_alerts
    /\ ENABLED AcknowledgeCall(1, "bob")
    /\ ENABLED AcknowledgeCall(MaxAlerts, "bob")

\* The threshold of the recipient a handler was called with.
ThresholdOf(call) == recipients[RecipientIndex(call)].severity_threshold

\* C4: no sender is called for a recipient with an alert whose severity is
\* below the recipient's threshold.
C4_NoDeliveryBelowThreshold ==
    /\ \A k \in 1..Len(sender_calls) :
          /\ sender_calls[k].recipient = recipients[RecipientIndex(sender_calls[k])].name
          /\ sender_calls[k].severity >= ThresholdOf(sender_calls[k])
    /\ \A S1 \in AlertSeverity, S2 \in AlertSeverity :
          S1 < S2 =>
             ~ ShouldReceiveAlert([name |-> "any", channels |-> <<"console">>,
                                   severity_threshold |-> S2,
                                   active_hours |-> EmptyDict], S1, now)

\* A delivery of a HIGH alert, after an escalation, that called the senders of
\* the recipient with threshold MEDIUM and none of the one with CRITICAL.
C4_Witness ==
    /\ worker.pc = "l179"
    /\ Len(recipients) = 2
    /\ alerts[worker.alert].severity = HIGH
    /\ EscalationCount(worker.alert) >= 1
    /\ sender_calls # <<>>
    /\ \A k \in 1..Len(sender_calls) : sender_calls[k].recipient = "ops"

\* C5: a timer thread that finds its alert active and not acknowledged at
\* the lookup of line 329 has the timeout behind it and goes on to escalate
\* the alert; and an escalation raises the severity by exactly one level
\* below CRITICAL and the count by exactly one, to 1 the first time.
C5_FiringEscalatesByOne ==
    /\ [](\A t \in BagToSet(timers) :
            (/\ t.pc = "l329"
             /\ t.alert_id \in DOMAIN active_alerts
             /\ ~ alerts[active_alerts[t.alert_id]].acknowledged)
            => TimeoutExceeded(alerts[active_alerts[t.alert_id]]))
    /\ [][\A t \in BagToSet(timers) :
            (/\ t.pc = "l329"
             /\ t.alert_id \in DOMAIN active_alerts
             /\ ~ alerts[active_alerts[t.alert_id]].acknowledged
             /\ CheckEscalationLookup(t))
            => /\ timers' # TimerReturn(t)
               /\ \E u \in BagToSet(timers') :
                     /\ u.pc = "l345"
                     /\ u.alert = active_alerts[t.alert_id]
                     /\ u.old_severity = alerts[u.alert].severity
                     /\ u.old_count = EscalationCount(u.alert)]_vars
    /\ [](\A t \in BagToSet(timers) :
            t.pc = "l353" =>
               /\ t.old_severity < CRITICAL =>
                     alerts[t.alert].severity = t.old_severity + 1
               /\ t.old_count = 0 => EscalationCount(t.alert) = 1
               /\ EscalationCount(t.alert) = t.old_count + 1)

\* C6: a timer that fires when its alert's id is not active does nothing but
\* end; and an acknowledged alert that is out of the active set while no timer
\* thread of its is between line 326 and the put of line 353 is never put on
\* the queue again.
C6_NoEscalationAfterAcknowledge ==
    /\ [][\A t \in BagToSet(timers) :
            (t.pc = "wait" /\ t.alert_id \notin DOMAIN active_alerts
               /\ CheckEscalation(t))
            => /\ timers' = TimerReturn(t)
               /\ UNCHANGED <<alerts, active_alerts, alert_history, alert_queue,
                              tickets>>]_vars
    /\ [][\A o \in 1..Len(alerts) :
            (/\ alerts[o].acknowledged
             /\ o \notin DOMAIN active_alerts
             /\ \A t \in BagToSet(timers) :
                   t.alert_id = o => t.pc \in {"wait", "l355"})
            => /\ alerts'[o] = alerts[o]
               /\ o \notin DOMAIN active_alerts'
               /\ \A t \in BagToSet(timers') :
                     t.alert_id = o => t.pc \in {"wait", "l355"}
               /\ tickets' # tickets => alert_queue'[Len(alert_queue')][1] # o]_vars

\* An alert was delivered and then acknowledged before its timer fired; the
\* timer, now due, finds the id not active.
C6_Witness ==
    \E t \in BagToSet(timers) :
       /\ t.pc = "wait"
       /\ now >= t.due
       /\ t.alert_id \notin DOMAIN active_alerts
       /\ alerts[t.alert_id].acknowledged
       /\ alerts[t.alert_id].metadata = EmptyDict
       /\ now - alerts[t.alert_id].timestamp >= EscalationTimeout

\* C7: an escalation of a CRITICAL alert leaves the severity CRITICAL, sets
\* metadata.escalated, adds one to metadata.escalation_count and puts the alert
\* at the back of the queue.
C7_EscalationAtCritical ==
    /\ [](\A t \in Escalating :
            t.old_severity = CRITICAL =>
               /\ alerts[t.alert].severity = CRITICAL
               /\ t.pc = "l353" =>
                    /\ alerts[t.alert].metadata["escalated"] = TRUE
                    /\ EscalationCount(t.alert) = t.old_count + 1)
    /\ [][\A t \in BagToSet(timers) :
            (t.pc = "l353" /\ t.old_severity = CRITICAL /\ EscalatePut(t))
            => /\ Len(alert_queue') = Len(alert_queue) + 1
               /\ alert_queue'[Len(alert_queue')][1] = t.alert
               /\ alerts'[t.alert].severity = CRITICAL]_vars

\* An alert that was already CRITICAL has been escalated a second time.
C7_Witness ==
    \E t \in BagToSet(timers) :
       /\ t.pc = "l353"
       /\ t.old_severity = CRITICAL
       /\ t.old_count = 1
       /\ EscalationCount(t.alert) = 2
       /\ alerts[t.alert].severity = CRITICAL

\* C8: no alert is escalated more than max_escalations times.  The code never
\* reads max_escalations.
C8_EscalationsCapped ==
    \A o \in 1..Len(alerts) : EscalationCount(o) <= escalation_config.max_escalations

\* C9: a timer thread never fails looking up its alert, and never escalates an
\* alert that is acknowledged.  The code takes no lock between the test of
\* line 326 and the lookup of line 329, nor in acknowledge_alert.
C9_TimerExcludesAcknowledge ==
    \A t \in BagToSet(timers) :
       /\ t.pc # "KeyError"
       /\ t \in Escalating => ~ alerts[t.alert].acknowledged

\* C10: the queue holds its items in the order they were put, and the worker
\* takes them in that order, one at a time: the items waiting carry the
\* tickets that follow the ticket of the item the worker took last.
C10_DeliveryInQueueOrder ==
    /\ tickets = worker.ticket + Len(alert_queue)
    /\ \A k \in 1..Len(alert_queue) : alert_queue[k][2] = worker.ticket + k

\* An alert resubmitted by an escalation waits behind an alert that was
\* submitted before the escalation.
C10_Witness ==
    /\ Len(alert_queue) = 2
    /\ alert_queue[1][1] # alert_queue[2][1]
    /\ EscalationCount(alert_queue[1][1]) = 0
    /\ EscalationCount(alert_queue[2][1]) = 1

\* The timer threads that are at one of the given lines, as a bag.
TimersAt(lines) ==
    [t \in {u \in BagToSet(timers) : u.pc \in lines} |-> CopiesIn(t, timers)]

\* The number of threads that are inside _deliver_alert.
DeliveriesInProgress ==
    (IF caller.pc \in DeliveryLines THEN 1 ELSE 0)
    + (IF worker.pc \in DeliveryLines THEN 1 ELSE 0)
    + BagCardinality(TimersAt(DeliveryLines))

\* C11: at most one thread is inside _deliver_alert, and it is the worker:
\* clients and timers only put on the queue.
C11_OneDeliveryAtATime ==
    /\ DeliveriesInProgress <= 1
    /\ DeliveriesInProgress = 1 => worker.pc \in DeliveryLines

\* The worker is delivering one alert while the timer thread of another
\* alert, past its timeout, is about to resubmit that alert.
C11_Witness ==
    /\ worker.pc = "l201"
    /\ \E t \in BagToSet(timers) : t.pc = "l353" /\ t.alert # worker.alert
    /\ DeliveriesInProgress = 1

\* The places of the handled channels of the recipients that
\* should_receive_alert accepts for the alert in the worker's hands.
EligiblePlaces ==
    HandledPlaces({i \in 1..Len(recipients) :
                     ShouldReceiveAlert(recipients[i], alerts[worker.alert].severity,
                                        worker.current_time)})

\* C12: a delivery that returns has called the senders of the handled channels
\* of the eligible recipients and of no other, whichever of them raised; and
\* after a sender that raised, the sender of every eligible channel that
\* follows, of the same recipient and of the later ones, was called exactly
\* once.
C12_SenderFailureIsIsolated ==
    [][DeliveryReturns
          => /\ Range(Places(sender_calls')) = EligiblePlaces
             /\ \A k \in 1..Len(sender_calls') :
                   sender_calls'[k].raised =>
                      \A p \in EligiblePlaces :
                         PlaceBefore(Place(sender_calls'[k]), p) =>
                            Cardinality({l \in (k + 1)..Len(sender_calls') :
                                           Place(sender_calls'[l]) = p}) = 1]_vars

\* A delivery to two recipients of one name: the console sender raised for
\* the first, the delivery went on to the first recipient's next channel and
\* to the second recipient, and the console sender returned for the second.
C12_Witness ==
    /\ worker.pc = "l179"
    /\ recipients = <<RecipientPool[1], SameNameRecipient>>
    /\ Len(sender_calls) = 4
    /\ Pairs(sender_calls) =
          << <<"ops", "console">>, <<"ops", "email">>,
             <<"ops", "sms">>, <<"ops", "console">> >>
    /\ sender_calls[1].raised
    /\ ~ sender_calls[2].raised
    /\ ~ sender_calls[4].raised

\* C13: no sender is called for a channel without handler, the delivery
\* completes without error, and the senders of the handled channels of every
\* eligible recipient are called, those listed after the missing one included.
C13_MissingHandlerIsSkipped ==
    /\ [](\A k \in 1..Len(sender_calls) :
             sender_calls[k].channel \in HandledChannels)
    /\ [][(DeliveryEnds
             /\ \A i \in 1..Len(recipients) :
                   ~ ShouldReceiveRaises(recipients[i], alerts[worker.alert].severity,
                                         worker.current_time))
          => /\ worker'.pc = "l179"
             /\ \A i \in 1..Len(recipients) :
                   ShouldReceiveAlert(recipients[i], alerts[worker.alert].severity,
                                      worker.current_time)
                   => \A j \in 1..Len(recipients[i].channels) :
                         recipients[i].channels[j] \in HandledChannels
                         => \E k \in 1..Len(sender_calls') :
                               /\ Place(sender_calls'[k]) = <<i, j>>
                               /\ sender_calls'[k].channel
                                     = recipients[i].channels[j]]_vars

\* A delivery to a recipient whose first channel has no handler: the sender of
\* its second channel was called, and then the senders of the next recipient.
C13_Witness ==
    /\ worker.pc = "l179"
    /\ Len(recipients) = 2
    /\ recipients[1].channels[1] \notin HandledChannels
    /\ Len(sender_calls) = 3
    /\ Pairs(sender_calls)[1] = <<recipients[1].name, recipients[1].channels[2]>>
    /\ Place(sender_calls[1]) = <<1, 2>>
    /\ RecipientIndex(sender_calls[2]) = 2

\* The minutes since midnight that a zero-padded 'HH:MM' string denotes.
ParseHM(str) ==
    ((str[1] - Digit(0)) * 10 + (str[2] - Digit(0))) * 60
    + (str[4] - Digit(0)) * 10 + (str[5] - Digit(0))

\* The recipient has no window, or a window with both bounds.
HasNoWindow(recipient) == DOMAIN recipient.active_hours = {}
HasWindow(recipient) == DOMAIN recipient.active_hours = {"start", "end"}

\* The severity reaches the threshold, and the time of day lies in the window,
\* bounds included, when there is one.
ExpectedToReceive(recipient, severity, current_time) ==
    /\ severity >= recipient.severity_threshold
    /\ \/ HasNoWindow(recipient)
       \/ /\ ParseHM(recipient.active_hours.start) <= TimeOfDay(current_time)
          /\ TimeOfDay(current_time) <= ParseHM(recipient.active_hours.end)

\* C14: should_receive_alert is true exactly when the severity reaches the
\* threshold and the recipient has no window or the time of day lies in it,
\* bounds included; a window with start > end matches at no time; and a
\* delivery calls the sender of a lone recipient exactly in that case.
C14_ShouldReceiveAlert ==
    /\ [](\A i \in 1..Len(recipients), severity \in AlertSeverity :
             LET recipient == recipients[i]
             IN  (HasNoWindow(recipient) \/ HasWindow(recipient))
                 => /\ ShouldReceiveAlert(recipient, severity, now)
                         <=> ExpectedToReceive(recipient, severity, now)
                    /\ (HasWindow(recipient)
                          /\ ParseHM(recipient.active_hours.start)
                                > ParseHM(recipient.active_hours.end))
                       => ~ ShouldReceiveAlert(recipient, severity, now))
    /\ [][(DeliveryEnds /\ Len(recipients) = 1 /\ recipients[1].name = "probe")
          => (sender_calls' # <<>>
                <=> ExpectedToReceive(recipients[1], alerts[worker.alert].severity,
                                      worker.current_time))]_vars

\* At 17:00 an alert whose severity equals the threshold was delivered to a
\* recipient whose window is 09:00-17:00.
C14_Witness ==
    /\ worker.pc = "l179"
    /\ Len(recipients) = 1
    /\ recipients[1].name = "probe"
    /\ recipients[1].active_hours = Window(9 * 60, 17 * 60)
    /\ TimeOfDay(now) = 17 * 60
    /\ alerts[worker.alert].severity = recipients[1].severity_threshold
    /\ recipients[1].severity_threshold = HIGH
    /\ sender_calls # <<>>

\* C20: a delivery that completes has called the sender of every handled
\* channel of every eligible recipient and no other, each once, with the
\* alert's severity and with the recipient, recipients in the order of the
\* list and the channels of one recipient in the order of its list.
C20_DeliveryOrder ==
    [][DeliveryReturns
       => LET severity == alerts[worker.alert].severity
              calls == sender_calls'
          IN  /\ Range(Places(calls)) =
                   HandledPlaces({i \in 1..Len(recipients) :
                                    ExpectedToReceive(recipients[i], severity,
                                                      worker.current_time)})
              /\ \A k \in 1..Len(calls) :
                    /\ calls[k].severity = severity
                    /\ calls[k].recipient = recipients[RecipientIndex(calls[k])].name
                    /\ calls[k].channel =
                          recipients[RecipientIndex(calls[k])]
                             .channels[ChannelIndex(calls[k])]
              /\ \A k \in 1..Len(calls), l \in 1..Len(calls) :
                    k < l => PlaceBefore(Place(calls[k]), Place(calls[l]))]_vars

\* A delivery to two eligible recipients that were added in the order day,
\* ops: the senders of day were called first, sms before console, then the
\* senders of ops, console before email.
C20_Witness ==
    /\ worker.pc = "l179"
    /\ Len(recipients) = 2
    /\ recipients[1].name = "day"
    /\ recipients[2].name = "ops"
    /\ Pairs(sender_calls) =
          << <<"day", "sms">>, <<"day", "console">>,
             <<"ops", "console">>, <<"ops", "email">> >>

\* C19: the worker is always inside its loop; an exception while it processes
\* an item takes it back to line 175; and at line 175 with an item in the
\* queue it can take the item.
C19_WorkerNeverStops ==
    /\ [](worker.pc \in WorkerLines)
    /\ [][(worker' # worker /\ worker'.outcome = "error")
          => /\ worker'.pc = "l175"
             /\ worker'.ticket = worker.ticket
             /\ alert_queue' = alert_queue]_vars
    /\ [](worker.pc = "l175" /\ alert_queue # <<>> => ENABLED WorkerGet)

\* The eligibility check of the first item raised (active hours without
\* 'end'), and the worker is at line 175 with the next item in the queue.
C19_Witness ==
    /\ worker.pc = "l175"
    /\ worker.outcome = "error"
    /\ worker.ticket = 1
    /\ Len(recipients) = 2
    /\ recipients[2].name = "broken"
    /\ sender_calls # <<>>
    /\ alert_queue # <<>>
    /\ alert_queue[1][2] = 2
    /\ ENABLED WorkerGet

\* The largest number of queue.put calls of a behaviour of SpecQueue: one per
\* alert, and one more per alert and clock tick.
TicketBound == MaxAlerts + MaxAlerts * ShortTicks

\* The worker has taken the k-th item put on the queue and _deliver_alert has
\* returned or raised for it.
Processed(k) ==
    \/ worker.ticket > k
    \/ worker.ticket = k /\ worker.pc \notin DeliveryLines

\* C18: every item put on the queue, by send_alert or by an escalation, is
\* eventually taken and delivered by the worker, when the worker is scheduled
\* fairly.
C18_EveryAlertDelivered ==
    \A k \in 1..TicketBound : (tickets >= k) ~> Processed(k)

\* The resubmission of an escalated alert, the third item put on the queue
\* after the submissions of two alerts, has been delivered while the
\* resubmission of the other alert waits in the queue.
C18_Witness ==
    /\ worker.ticket = 3
    /\ worker.pc = "l179"
    /\ EscalationCount(worker.alert) >= 1
    /\ Len(alerts) = 2
    /\ alert_queue # <<>>
    /\ alert_queue[1][1] # worker.alert

\* The alerts of the history that are acknowledged.
AcknowledgedAlerts == {o \in Range(alert_history) : alerts[o].acknowledged}

\* The minutes from timestamp to acknowledgement, summed over a set of
\* acknowledged alerts.
RECURSIVE TotalAckMinutes(_)
TotalAckMinutes(S) ==
    IF S = {} THEN 0
    ELSE LET o == CHOOSE x \in S : TRUE
         IN  (alerts[o].acknowledged_at[1] - alerts[o].timestamp)
             + TotalAckMinutes(S \ {o})

\* C15: the average_acknowledgment_time that get_alert_statistics returns is
\* the mean of acknowledged_at - timestamp, in minutes, over the acknowledged
\* alerts of the history; it is 0, with no division by zero, when none is
\* acknowledged; and it is 3 for three alerts of which two were acknowledged,
\* after 2 and after 4 minutes.
C15_AverageAcknowledgmentTime ==
    caller.pc = "l385" =>
       LET avg == caller.stats.average_acknowledgment_time
       IN  /\ avg.den > 0
           /\ AcknowledgedAlerts = {} => avg.num = 0
           /\ AcknowledgedAlerts # {} =>
                 avg.num * Cardinality(AcknowledgedAlerts)
                    = TotalAckMinutes(AcknowledgedAlerts) * avg.den
           /\ (/\ Len(alert_history) = 3
               /\ Cardinality(AcknowledgedAlerts) = 2
               /\ {alerts[o].acknowledged_at[1] - alerts[o].timestamp :
                      o \in AcknowledgedAlerts} = {2, 4})
              => avg.num = 3 * avg.den

\* The statistics of three alerts, the second acknowledged after 2 minutes and
\* the third after 4, have been returned: the mean is 6 / 2.
C15_Witness ==
    /\ caller.pc = "l385"
    /\ Len(alert_history) = 3
    /\ ~ alerts[1].acknowledged
    /\ alerts[2].acknowledged_at = Some(2)
    /\ alerts[3].acknowledged_at = Some(4)
    /\ caller.stats.average_acknowledgment_time = [num |-> 6, den |-> 2]

\* C16: the dict that get_alert_statistics returns holds the number of history
\* entries, the size of the active set and the number of acknowledged history
\* entries, and its by_severity counts sum to total_alerts.  The code takes
\* no lock: a timer thread raises a severity between two passes of line 381.
C16_StatisticsAreConsistent ==
    caller.pc = "l385" =>
       LET stats == caller.stats
       IN  /\ stats.total_alerts = Len(alert_history)
           /\ stats.active_alerts = Cardinality(DOMAIN active_alerts)
           /\ stats.acknowledged_alerts = Cardinality(AcknowledgedAlerts)
           /\ DOMAIN stats.by_severity = AlertSeverity
           /\ Sum([s \in 1..CRITICAL |-> stats.by_severity[s]])
                 = stats.total_alerts

\* The Alert objects that the active set, the queue, the worker (the item it
\* is processing) and the live timer threads hold.
ObjectsInUse ==
    {active_alerts[id] : id \in DOMAIN active_alerts}
    \cup {alert_queue[k][1] : k \in 1..Len(alert_queue)}
    \cup (IF worker.pc \in ProcessingLines THEN {worker.alert} ELSE {})
    \cup ({t.alert : t \in {u \in BagToSet(timers) : u.pc # "KeyError"}} \ {0})

\* C17: the history entry of an alert shows the fields of the alert that the
\* active set, the queue, the worker and the timers hold (the severity and
\* count after every escalation), and the ack fields once acknowledge_alert
\* has returned; and the history holds the submitted alerts in the order of
\* their submission (the client numbers its alerts as it submits them), one
\* entry each, none missing once send_alert has returned, and only grows at
\* its end.
C17_HistoryByReference ==
    /\ [](\A k \in 1..Len(alert_history), o \in ObjectsInUse :
             alerts[o].alert_id = alerts[alert_history[k]].alert_id
             => alerts[alert_history[k]] = alerts[o])
    /\ [](\A k \in 1..Len(alert_history) :
             (caller.pc = "idle"
                /\ alerts[alert_history[k]].alert_id \notin DOMAIN active_alerts)
             => /\ alerts[alert_history[k]].acknowledged
                /\ alerts[alert_history[k]].acknowledged_by # None
                /\ alerts[alert_history[k]].acknowledged_at # None)
    /\ [](/\ \A k \in 1..Len(alert_history) :
                alerts[alert_history[k]].alert_id = k
          /\ caller.pc \notin {"l166", "l169"} =>
                \A o \in ObjectsInUse : alerts[o].alert_id <= Len(alert_history))
    /\ [][/\ Len(alert_history') >= Len(alert_history)
          /\ SubSeq(alert_history', 1, Len(alert_history)) = alert_history]_vars

\* Two alerts were submitted and each was escalated once; then the first was
\* acknowledged.  The history holds both, the first submitted first: its
\* first entry shows the raised severity, the count and the actor, and its
\* second entry the raised severity and the count of the alert still active.
C17_Witness ==
    /\ caller.pc = "idle"
    /\ alert_history = <<1, 2>>
    /\ LET alert == alerts[alert_history[1]]
       IN  /\ alert.severity = alert.severity0 + 1
           /\ EscalationCount(alert_history[1]) = 1
           /\ alert.acknowledged_by = Some("alice")
           /\ alert.alert_id \notin DOMAIN active_alerts
    /\ LET alert == alerts[alert_history[2]]
       IN  /\ alert.severity = alert.severity0 + 1
           /\ EscalationCount(alert_history[2]) = 1
           /\ ~ alert.acknowledged
           /\ alert.alert_id \in DOMAIN active_alerts
           /\ active_alerts[alert.alert_id] = alert_history[2]

\* C21 as stated: a delivery that completes is followed by the arming of
\* exactly one timer for the alert's id, due one timeout later, when
\* escalation is enabled, and of none when it is disabled; timers are armed by
\* nothing else; and with escalation disabled there is never a timer and no
\* alert's severity or metadata differs from what it was submitted with.
C21_TimerArmedIffEnabled ==
    /\ [][(worker.pc = "l179" /\ worker'.pc # "l179")
          => /\ worker'.outcome = "ok"
             /\ timers' = IF escalation_config.enabled
                          THEN timers (+) SetToBag({
                                 [alert_id |-> alerts[worker.alert].alert_id,
                                  due |-> now + EscalationTimeout, pc |-> "wait",
                                  alert |-> 0, old_severity |-> 0, old_count |-> 0]})
                          ELSE timers]_vars
    /\ [][BagCardinality(timers') > BagCardinality(timers)
          => /\ worker.pc = "l179"
             /\ BagCardinality(timers') = BagCardinality(timers) + 1]_vars
    /\ [](~ escalation_config.enabled
          => /\ timers = EmptyBag
             /\ \A o \in 1..Len(alerts) :
                   /\ alerts[o].severity = alerts[o].severity0
                   /\ alerts[o].metadata = EmptyDict)

\* C21 as amended: a delivery that completes is followed by the arming of
\* exactly one timer for the alert's id, due one timeout later, when
\* escalation is enabled and the timer starts, and of none when escalation is
\* disabled; when starting the timer raises, which happens only with
\* escalation enabled, no timer is armed and the worker is back at line 175
\* with the error logged; timers are armed by nothing else; and with
\* escalation disabled there is never a timer and no alert's severity or
\* metadata differs from what it was submitted with.
C21_TimerArmedUnlessStartRaises ==
    /\ [][(worker.pc = "l179" /\ worker'.pc # "l179")
          => IF worker'.outcome = "ok"
             THEN timers' = IF escalation_config.enabled
                            THEN timers (+) SetToBag({
                                   [alert_id |-> alerts[worker.alert].alert_id,
                                    due |-> now + EscalationTimeout, pc |-> "wait",
                                    alert |-> 0, old_severity |-> 0,
                                    old_count |-> 0]})
                            ELSE timers
             ELSE /\ escalation_config.enabled
                  /\ worker'.outcome = "error"
                  /\ worker'.pc = "l175"
                  /\ timers' = timers]_vars
    /\ [][BagCardinality(timers') > BagCardinality(timers)
          => /\ worker.pc = "l179"
             /\ worker'.outcome = "ok"
             /\ BagCardinality(timers') = BagCardinality(timers) + 1]_vars
    /\ [](~ escalation_config.enabled
          => /\ timers = EmptyBag
             /\ worker.outcome # "error"
             /\ \A o \in 1..Len(alerts) :
                   /\ alerts[o].severity = alerts[o].severity0
                   /\ alerts[o].metadata = EmptyDict)

\* With escalation disabled an alert was delivered and the worker is back at
\* line 175; two timeouts later the alert is still active and unchanged and
\* there is no timer.
C21_Witness ==
    /\ ~ escalation_config.enabled
    /\ worker.pc = "l175"
    /\ worker.outcome = "ok"
    /\ worker.ticket = 1
    /\ Len(alerts) = 1
    /\ 1 \in DOMAIN active_alerts
    /\ now - alerts[1].timestamp >= 2 * EscalationTimeout
    /\ alerts[1].severity = alerts[1].severity0
    /\ timers = EmptyBag

\* The number of escalations so far: the escalation counts of all alerts.
TotalEscalations == Sum([o \in 1..Len(alerts) |-> EscalationCount(o)])

\* C22 as stated: every escalation puts its alert on the queue exactly once
\* (the puts are one per submission and one per escalation); the delivery of
\* an item tests every recipient against the severity the alert has then, the
\* raised one after an escalation, and calls the senders of exactly the
\* recipients whose threshold it reaches; the delivery of an escalated alert
\* is followed by the arming of another timer; and a recipient whose threshold
\* is the raised severity was not eligible for the severity before the raise
\* and is eligible for the raised one.
C22_EscalationRedelivers ==
    /\ [](tickets = Len(alerts) - (IF caller.pc = "l166" THEN 1 ELSE 0)
                    + TotalEscalations
                    - BagCardinality(TimersAt({"l353"})))
    /\ [][\A t \in BagToSet(timers) :
            (t.pc = "l353" /\ CopiesIn(t, timers') < CopiesIn(t, timers))
            => /\ Len(alert_queue') = Len(alert_queue) + 1
               /\ alert_queue'[Len(alert_queue')][1] = t.alert]_vars
    /\ [][DeliveryReturns
          => \A i \in 1..Len(recipients) :
                LET severity == alerts[worker.alert].severity
                    called == {k \in 1..Len(sender_calls') :
                                 RecipientIndex(sender_calls'[k]) = i}
                IN  /\ \A k \in called : sender_calls'[k].severity = severity
                    /\ {Place(sender_calls'[k]) : k \in called} =
                          IF severity >= recipients[i].severity_threshold
                          THEN HandledPlaces({i})
                          ELSE {}]_vars
    /\ [][(worker.pc = "l179" /\ worker'.pc # "l179"
             /\ EscalationCount(worker.alert) >= 1)
          => timers' = timers (+) SetToBag({
                 NewTimer(alerts[worker.alert].alert_id, now + EscalationTimeout)})]_vars
    /\ [](\A t \in BagToSet(timers), i \in 1..Len(recipients) :
            (/\ t.pc = "l353"
             /\ t.old_severity < CRITICAL
             /\ recipients[i].severity_threshold = alerts[t.alert].severity)
            => /\ ~ ShouldReceiveAlert(recipients[i], t.old_severity, now)
               /\ ShouldReceiveAlert(recipients[i], alerts[t.alert].severity, now))

\* C22 as amended: every escalation puts its alert on the queue exactly once
\* (the puts are one per submission and one per escalation); the delivery of
\* an item tests every recipient against the severity the alert has then, the
\* raised one after an escalation, and calls the senders of exactly the
\* recipients whose threshold it reaches; the delivery of an escalated alert
\* is followed by the arming of another timer unless starting the timer
\* raises, and then none is armed; and a recipient whose threshold is the
\* raised severity was not eligible for the severity before the raise and is
\* eligible for the raised one.
C22_EscalationRedeliversAndRearms ==
    /\ [](tickets = Len(alerts) - (IF caller.pc = "l166" THEN 1 ELSE 0)
                    + TotalEscalations
                    - BagCardinality(TimersAt({"l353"})))
    /\ [][\A t \in BagToSet(timers) :
            (t.pc = "l353" /\ CopiesIn(t, timers') < CopiesIn(t, timers))
            => /\ Len(alert_queue') = Len(alert_queue) + 1
               /\ alert_queue'[Len(alert_queue')][1] = t.alert]_vars
    /\ [][DeliveryReturns
          => \A i \in 1..Len(recipients) :
                LET severity == alerts[worker.alert].severity
                    called == {k \in 1..Len(sender_calls') :
                                 RecipientIndex(sender_calls'[k]) = i}
                IN  /\ \A k \in called : sender_calls'[k].severity = severity
                    /\ {Place(sender_calls'[k]) : k \in called} =
                          IF severity >= recipients[i].severity_threshold
                          THEN HandledPlaces({i})
                          ELSE {}]_vars
    /\ [][(worker.pc = "l179" /\ worker'.pc # "l179"
             /\ EscalationCount(worker.alert) >= 1)
          => timers' = IF worker'.outcome = "ok"
                       THEN timers (+) SetToBag({
                              NewTimer(alerts[worker.alert].alert_id,
                                       now + EscalationTimeout)})
                       ELSE timers]_vars
    /\ [](\A t \in BagToSet(timers), i \in 1..Len(recipients) :
            (/\ t.pc = "l353"
             /\ t.old_severity < CRITICAL
             /\ recipients[i].severity_threshold = alerts[t.alert].severity)
            => /\ ~ ShouldReceiveAlert(recipients[i], t.old_severity, now)
               /\ ShouldReceiveAlert(recipients[i], alerts[t.alert].severity, now))

\* An alert submitted as HIGH was escalated once, to CRITICAL, and its
\* redelivery called the sender of the recipient with threshold CRITICAL.
C22_Witness ==
    /\ worker.pc = "l179"
    /\ worker.ticket = 2
    /\ alerts[worker.alert].severity0 = HIGH
    /\ alerts[worker.alert].severity = CRITICAL
    /\ EscalationCount(worker.alert) = 1
    /\ ENABLED WorkerArm
    /\ \E k \in 1..Len(sender_calls) :
          /\ sender_calls[k].recipient = "chief"
          /\ sender_calls[k].channel = "sms"
          /\ sender_calls[k].severity = CRITICAL

\* C23: an id leaves the active set only in the step of acknowledge_alert that
\* deletes it (line 317), and an id that stays keeps its alert: no step of the
\* worker, of a timer thread or of a query removes or replaces an entry; so
\* an alert that is not acknowledged is active, however often it was
\* escalated.
C23_OnlyAcknowledgeRemoves ==
    /\ [][\A id \in DOMAIN active_alerts :
            IF id \in DOMAIN active_alerts'
            THEN active_alerts'[id] = active_alerts[id]
            ELSE /\ caller.pc = "l317"
                 /\ caller.alert_id = id
                 /\ caller'.pc = "idle"
                 /\ alerts[active_alerts[id]].acknowledged]_vars
    /\ [](\A o \in 1..Len(alerts) :
            ~ alerts[o].acknowledged => /\ alerts[o].alert_id \in DOMAIN active_alerts
                                        /\ active_alerts[alerts[o].alert_id] = o)

\* An alert submitted as CRITICAL was delivered and escalated twice and is
\* still active while get_alert_statistics returns.
C23_Witness ==
    /\ caller.pc = "l385"
    /\ caller.stats.active_alerts = 1
    /\ Len(alerts) = 1
    /\ alerts[1].severity0 = CRITICAL
    /\ EscalationCount(1) = 2
    /\ ~ alerts[1].acknowledged
    /\ 1 \in DOMAIN active_alerts
    /\ worker.ticket = 3

\* The three ack fields of an alert.
AckFields(alert) ==
    <<alert.acknowledged, alert.acknowledged_by, alert.acknowledged_at>>

\* C24: the id and the timestamp of an alert never change; its severity and
\* metadata change only in a step of a timer thread that is inside
\* _escalate_alert for it (lines 345-350), which leaves the ack fields alone
\* and writes no metadata key but escalated and escalation_count; its ack
\* fields change only in the step of acknowledge_alert for its id (lines
\* 310-312), which leaves severity and metadata alone; and no step of
\* send_alert, of the worker (delivery and sender calls), of get_active_alerts
\* or of get_alert_statistics changes any field of any alert.
C24_FieldsChangeOnlyByEscalateOrAcknowledge ==
    [][/\ Len(alerts') >= Len(alerts)
       /\ \A o \in 1..Len(alerts) :
             LET a == alerts[o]
                 b == alerts'[o]
             IN  /\ b.alert_id = a.alert_id
                 /\ b.timestamp = a.timestamp
                 /\ (b.severity # a.severity \/ b.metadata # a.metadata)
                    => /\ \E t \in BagToSet(timers) :
                             /\ t.alert = o
                             /\ t.pc \in {"l345", "l349", "l350"}
                             /\ CopiesIn(t, timers') < CopiesIn(t, timers)
                       /\ AckFields(b) = AckFields(a)
                       /\ DOMAIN b.metadata \subseteq {"escalated", "escalation_count"}
                       /\ caller' = caller
                       /\ worker' = worker
                 /\ AckFields(b) # AckFields(a)
                    => /\ caller.pc = "idle"
                       /\ caller'.pc = "l317"
                       /\ caller'.alert_id = a.alert_id
                       /\ b.severity = a.severity
                       /\ b.metadata = a.metadata
                 /\ (caller' # caller /\ caller'.pc # "l317") => b = a
                 /\ worker' # worker => b = a]_vars

\* An alert was delivered, escalated once, delivered again and acknowledged,
\* and get_active_alerts has returned the empty list: the alert shows the
\* raised severity, the count and the ack fields.
C24_Witness ==
    /\ caller.pc = "l372"
    /\ caller.alerts = <<>>
    /\ Len(alerts) = 1
    /\ alerts[1].severity0 = HIGH
    /\ alerts[1].severity = CRITICAL
    /\ alerts[1].metadata = [escalated |-> TRUE, escalation_count |-> 1]
    /\ AckFields(alerts[1]) = <<TRUE, Some("alice"), Some(EscalationTimeout)>>
    /\ worker.ticket = 2
    /\ worker.outcome = "ok"

\* min(a, b)
Min(a, b) == IF a <= b THEN a ELSE b

\* C25: in every state, the severity of every alert is its severity at
\* submission plus its escalation count, capped at CRITICAL, and
\* metadata.escalated is true exactly when the count is at least 1.  The code
\* writes the severity at line 346, escalated at line 349 and the count at
\* line 350, with no lock around the three writes.
C25_SeverityTracksCount ==
    \A o \in 1..Len(alerts) :
       /\ alerts[o].severity = Min(CRITICAL, alerts[o].severity0 + EscalationCount(o))
       /\ DictGet(alerts[o].metadata, "escalated", FALSE) <=> EscalationCount(o) >= 1

\* The statistics the client holds while get_alert_statistics computes or has
\* returned them.
StatisticsLines == {"l381", "l384", "l385"}

\* C26: whenever no call of the client is in progress, every history entry is
\* either in the active set or acknowledged, never both and never neither, so
\* the length of the history is the size of the active set plus the number of
\* acknowledged entries; and the total_alerts, active_alerts and
\* acknowledged_alerts that get_alert_statistics computes satisfy
\* total_alerts = active_alerts + acknowledged_alerts.
C26_TotalIsActivePlusAcknowledged ==
    /\ caller.pc = "idle"
       => /\ \A k \in 1..Len(alert_history) :
                LET alert == alerts[alert_history[k]]
                IN  (alert.alert_id \in DOMAIN active_alerts) # alert.acknowledged
          /\ Len(alert_history) =
                Cardinality(DOMAIN active_alerts)
                + Cardinality({k \in 1..Len(alert_history) :
                                  alerts[alert_history[k]].acknowledged})
    /\ caller.pc \in StatisticsLines
       => caller.stats.total_alerts =
             caller.stats.active_alerts + caller.stats.acknowledged_alerts

\* get_alert_statistics returns 2 = 1 + 1 after two alerts were submitted, one
\* was acknowledged and the other was escalated.
C26_Witness ==
    /\ caller.pc = "l385"
    /\ caller.stats.total_alerts = 2
    /\ caller.stats.active_alerts = 1
    /\ caller.stats.acknowledged_alerts = 1
    /\ \E o \in DOMAIN active_alerts : EscalationCount(active_alerts[o]) = 1

\* The copies of alert o in the queue.
QueueCopies(o) == Cardinality({k \in 1..Len(alert_queue) : alert_queue[k][1] = o})

\* 1 when the worker is processing alert o (lines 176-184), else 0.
BeingProcessed(o) ==
    IF worker.pc \in ProcessingLines /\ worker.alert = o THEN 1 ELSE 0

\* The live timer threads of alert o, waiting or running the callback; a
\* thread that an exception ended is not one of them.
TimersOf(o) ==
    BagCardinality([t \in {u \in BagToSet(timers) :
                               /\ u.alert_id = alerts[o].alert_id
                               /\ u.pc # "KeyError"}
                       |-> CopiesIn(t, timers)])

\* The timer threads of alert o that wait for their interval to end.
PendingTimersOf(o) ==
    BagCardinality([t \in {u \in BagToSet(timers) :
                               /\ u.alert_id = alerts[o].alert_id
                               /\ u.pc = "wait"}
                       |-> CopiesIn(t, timers)])

\* The timer threads of alert o that run the callback, from the test of line
\* 326 to the log call of line 355.
CallbacksOf(o) ==
    BagCardinality([t \in {u \in BagToSet(timers) :
                               /\ u.alert_id = alerts[o].alert_id
                               /\ u.pc \notin {"wait", "KeyError"}}
                       |-> CopiesIn(t, timers)])

\* The timer threads of alert o that have not yet come to the end of the put
\* of line 353: they wait, or run the callback up to that line.
TimersBeforePutOf(o) ==
    BagCardinality([t \in {u \in BagToSet(timers) :
                               /\ u.alert_id = alerts[o].alert_id
                               /\ u.pc \notin {"l355", "KeyError"}}
                       |-> CopiesIn(t, timers)])

\* C27 as stated: for every alert, the copies of it in the queue, its delivery
\* in progress and its timers waiting to fire are at most one in all; and at
\* most one timer callback of the alert runs at a time.
C27_OneTokenPerAlert ==
    \A o \in 1..Len(alerts) :
       /\ QueueCopies(o) + BeingProcessed(o) + PendingTimersOf(o) <= 1
       /\ CallbacksOf(o) <= 1

\* C27 as amended: for every alert, the copies of it in the queue, its
\* delivery in progress and its timer threads that have not passed the put of
\* line 353 (waiting, or running the callback up to the put) are at most one
\* in all, so the writes of its escalations happen one after the other.  A
\* timer thread at line 355, after its put, where it only logs, exists next
\* to the copy it put, to the delivery of that copy and to the next timer.
C27_OneTokenUntilPut ==
    \A o \in 1..Len(alerts) :
       QueueCopies(o) + BeingProcessed(o) + TimersBeforePutOf(o) <= 1

\* An alert was escalated twice; its second redelivery armed the third timer,
\* which is waiting, while the thread of the second timer is still at line
\* 355, after its put: there is no copy in the queue and no delivery.
C27_Witness ==
    /\ Len(alerts) = 1
    /\ EscalationCount(1) = 2
    /\ worker.ticket = 3
    /\ worker.pc = "l175"
    /\ alert_queue = <<>>
    /\ \E t \in BagToSet(timers) :
          t.alert_id = 1 /\ t.pc = "wait" /\ t.due = now + EscalationTimeout
    /\ \E t \in BagToSet(timers) : t.alert_id = 1 /\ t.pc = "l355"
    /\ TimersOf(1) = 2

\* C28 as stated: a timer thread that finds the alert active reads a clock
\* that is at least one timeout past the alert's timestamp, and escalates;
\* and, with the worker and the timers scheduled fairly, an alert that was put
\* on the queue and is never acknowledged reaches CRITICAL, and is escalated
\* and redelivered once per timeout for as long as the clock runs.
C28_UnacknowledgedAlwaysEscalates ==
    /\ [](\A t \in BagToSet(timers) :
            (t.pc = "l329" /\ t.alert_id \in DOMAIN active_alerts)
            => now - alerts[active_alerts[t.alert_id]].timestamp >= EscalationTimeout)
    /\ (tickets >= 1)
          ~> (/\ Len(alerts) >= 1
              /\ \/ alerts[1].acknowledged
                 \/ alerts[1].severity = CRITICAL)
    /\ (tickets >= 1)
          ~> (/\ Len(alerts) >= 1
              /\ \/ alerts[1].acknowledged
                 \/ /\ EscalationCount(1) = LongTicks
                    /\ Processed(LongTicks + 1))

\* Lines 186-189 have ended the processing of an item of alert o: the worker
\* waits at line 175 with the error as its last outcome, no copy of the alert
\* is in the queue and no timer thread of its is before the put of line 353.
DroppedByWorker(o) ==
    /\ worker.pc = "l175"
    /\ worker.alert = o
    /\ worker.outcome = "error"
    /\ QueueCopies(o) = 0
    /\ TimersBeforePutOf(o) = 0

\* C28 as amended: a timer thread that finds the alert active reads a clock
\* that is at least one timeout past the alert's timestamp, and escalates.
\* When the processing of an item of the alert raises (the delivery or the
\* start of the timer), no timer is armed and nothing else changes, and from
\* then on the alert is neither put on the queue nor escalated: its severity
\* and metadata stay as they are and it leaves the active set only by an
\* acknowledgement.  Nothing else ends the cycle: an alert that was put on the
\* queue and is not acknowledged has a copy in the queue, a delivery in
\* progress or a timer thread before its put, or was dropped by such a raise.
\* So, with the worker and the timers scheduled fairly, an alert that is never
\* acknowledged reaches CRITICAL and is escalated and redelivered once per
\* timeout for as long as the clock runs (LongTicks escalations, LongTicks + 1
\* deliveries), or ends dropped by a raise.
C28_EscalatesUntilProcessingRaises ==
    /\ [](\A t \in BagToSet(timers) :
            (t.pc = "l329" /\ t.alert_id \in DOMAIN active_alerts)
            => now - alerts[active_alerts[t.alert_id]].timestamp >= EscalationTimeout)
    /\ [][\A t \in BagToSet(timers) :
            (/\ t.pc = "l329"
             /\ t.alert_id \in DOMAIN active_alerts
             /\ CheckEscalationLookup(t))
            => \E u \in BagToSet(timers') :
                  u.pc = "l345" /\ u.alert = active_alerts[t.alert_id]]_vars
    /\ [][\A o \in 1..Len(alerts) :
            (/\ worker.pc \in ProcessingLines
             /\ worker.alert = o
             /\ worker'.outcome = "error")
            => /\ DroppedByWorker(o)'
               /\ UNCHANGED <<alerts, active_alerts, alert_history, alert_queue,
                              timers, tickets>>]_vars
    /\ [][\A o \in 1..Len(alerts) :
            DroppedByWorker(o)
            => /\ DroppedByWorker(o)'
               /\ alerts'[o].severity = alerts[o].severity
               /\ alerts'[o].metadata = alerts[o].metadata
               /\ UNCHANGED <<alert_queue, tickets>>
               /\ active_alerts' # active_alerts => alerts[o].acknowledged]_vars
    /\ [](\A o \in 1..Len(alerts) :
            (tickets >= 1 /\ ~ alerts[o].acknowledged)
            => \/ QueueCopies(o) + BeingProcessed(o) + TimersBeforePutOf(o) = 1
               \/ DroppedByWorker(o))
    /\ (tickets >= 1)
          ~> (/\ Len(alerts) >= 1
              /\ \/ alerts[1].acknowledged
                 \/ DroppedByWorker(1)
                 \/ alerts[1].severity = CRITICAL)
    /\ (tickets >= 1)
          ~> (/\ Len(alerts) >= 1
              /\ \/ alerts[1].acknowledged
                 \/ DroppedByWorker(1)
                 \/ /\ EscalationCount(1) = LongTicks
                    /\ Processed(LongTicks + 1))

\* An alert submitted as LOW and never acknowledged was escalated to CRITICAL
\* by three firings, escalated once more at CRITICAL, and delivered each time.
C28_Witness ==
    /\ Len(alerts) = 1
    /\ alerts[1].severity0 = LOW
    /\ alerts[1].severity = CRITICAL
    /\ ~ alerts[1].acknowledged
    /\ EscalationCount(1) = 4
    /\ worker.ticket = 5
    /\ worker.pc = "l175"
    /\ worker.outcome = "ok"

\* The eligibility check of the recipient is expected to fail: the severity
\* reaches the threshold and active_hours has keys but not 'start', or not
\* 'end' while the time of day is not before the start.
KeyErrorExpected(recipient, severity, current_time) ==
    /\ severity >= recipient.severity_threshold
    /\ DOMAIN recipient.active_hours # {}
    /\ \/ "start" \notin DOMAIN recipient.active_hours
       \/ /\ "end" \notin DOMAIN recipient.active_hours
          /\ ParseHM(recipient.active_hours.start) <= TimeOfDay(current_time)

\* The recipients whose eligibility check fails for the alert in the worker's
\* hands.
FailingRecipients ==
    {i \in 1..Len(recipients) :
        KeyErrorExpected(recipients[i], alerts[worker.alert].severity,
                         worker.current_time)}

\* C29: a delivery raises exactly when the eligibility check of some recipient
\* fails; then the worker is back at line 175 with the error logged, the
\* senders called are those of the eligible recipients before the first
\* failing one and none of that recipient or a later one, no timer is armed,
\* the active set and the queue are as before and the alert is still active;
\* timers are armed only after a delivery that returned; and the worker can
\* take the next item.
C29_DeliveryErrorSkipsTheRest ==
    /\ [][DeliveryEnds
          => IF FailingRecipients = {}
             THEN worker'.pc = "l179"
             ELSE LET first == CHOOSE i \in FailingRecipients :
                                  \A k \in FailingRecipients : i <= k
                      severity == alerts[worker.alert].severity
                  IN  /\ worker'.pc = "l175"
                      /\ worker'.outcome = "error"
                      /\ worker'.ticket = worker.ticket
                      /\ Range(Places(sender_calls')) =
                           HandledPlaces({k \in 1..(first - 1) :
                                            ExpectedToReceive(recipients[k], severity,
                                                              worker.current_time)})
                      /\ timers' = timers
                      /\ active_alerts' = active_alerts
                      /\ alerts[worker.alert].alert_id \in DOMAIN active_alerts'
                      /\ alert_queue' = alert_queue]_vars
    /\ [][timers' # timers => worker.pc = "l179" /\ worker'.outcome = "ok"]_vars
    /\ [](worker.pc = "l175" /\ worker.outcome = "error" /\ alert_queue # <<>>
          => ENABLED WorkerGet)

\* The delivery of the first alert called the senders of the first recipient
\* and raised at the second, whose active_hours lacks 'start': the worker is
\* at line 175, no timer is armed, the alert is active and the next item
\* waits.
C29_Witness ==
    /\ worker.pc = "l175"
    /\ worker.outcome = "error"
    /\ worker.ticket = 1
    /\ recipients = <<RecipientPool[1], NoStartRecipient>>
    /\ Pairs(sender_calls) = << <<"ops", "console">>, <<"ops", "email">> >>
    /\ timers = EmptyBag
    /\ 1 \in DOMAIN active_alerts
    /\ alert_queue # <<>>
    /\ alert_queue[1][2] = 2

\* The alert in the worker's hands is not in the active set.
WorkerAlertInactive ==
    alerts[worker.alert].alert_id \notin DOMAIN active_alerts

\* C30 as stated: the worker takes the front item of the queue whether or not
\* its alert is active; the delivery of an alert that is not active calls the
\* senders of every recipient whose threshold its severity reaches and of no
\* other; a timer is armed after that delivery; and the firing of a timer
\* whose alert is not active ends the thread and changes nothing else.
C30_WorkerIgnoresActiveSet ==
    /\ [][(worker.pc = "l175" /\ alert_queue # <<>> /\ worker' # worker)
          => /\ worker'.pc = "l193"
             /\ worker'.alert = alert_queue[1][1]]_vars
    /\ [][(DeliveryEnds /\ WorkerAlertInactive)
          => /\ worker'.pc = "l179"
             /\ \A i \in 1..Len(recipients) :
                   {Place(sender_calls'[k]) :
                      k \in {l \in 1..Len(sender_calls') :
                               RecipientIndex(sender_calls'[l]) = i}}
                   = IF alerts[worker.alert].severity
                           >= recipients[i].severity_threshold
                     THEN HandledPlaces({i})
                     ELSE {}]_vars
    /\ [][(worker.pc = "l179" /\ worker'.pc # "l179" /\ WorkerAlertInactive)
          => timers' = timers (+) SetToBag({
                 NewTimer(alerts[worker.alert].alert_id, now + EscalationTimeout)})]_vars
    /\ [][\A t \in BagToSet(timers) :
            (/\ t.pc = "wait"
             /\ t.alert_id \notin DOMAIN active_alerts
             /\ CopiesIn(t, timers') < CopiesIn(t, timers))
            => /\ timers' = timers (-) SetToBag({t})
               /\ UNCHANGED <<alerts, active_alerts, alert_history, alert_queue,
                              tickets, worker, sender_calls, caller>>]_vars

\* C30 as amended: the worker takes the front item of the queue whether or
\* not its alert is active; the delivery of an alert that is not active calls
\* the senders of every recipient whose threshold its severity reaches and of
\* no other; a timer is armed after that delivery unless starting the timer
\* raises, and then none is armed; and the firing of a timer whose alert is
\* not active ends the thread and changes nothing else.
C30_InactiveAlertIsDelivered ==
    /\ [][(worker.pc = "l175" /\ alert_queue # <<>> /\ worker' # worker)
          => /\ worker'.pc = "l193"
             /\ worker'.alert = alert_queue[1][1]]_vars
    /\ [][(DeliveryEnds /\ WorkerAlertInactive)
          => /\ worker'.pc = "l179"
             /\ \A i \in 1..Len(recipients) :
                   {Place(sender_calls'[k]) :
                      k \in {l \in 1..Len(sender_calls') :
                               RecipientIndex(sender_calls'[l]) = i}}
                   = IF alerts[worker.alert].severity
                           >= recipients[i].severity_threshold
                     THEN HandledPlaces({i})
                     ELSE {}]_vars
    /\ [][(worker.pc = "l179" /\ worker'.pc # "l179" /\ WorkerAlertInactive)
          => timers' = IF worker'.outcome = "ok"
                       THEN timers (+) SetToBag({
                              NewTimer(alerts[worker.alert].alert_id,
                                       now + EscalationTimeout)})
                       ELSE timers]_vars
    /\ [][\A t \in BagToSet(timers) :
            (/\ t.pc = "wait"
             /\ t.alert_id \notin DOMAIN active_alerts
             /\ CopiesIn(t, timers') < CopiesIn(t, timers))
            => /\ timers' = timers (-) SetToBag({t})
               /\ UNCHANGED <<alerts, active_alerts, alert_history, alert_queue,
                              tickets, worker, sender_calls, caller>>]_vars

\* An alert was acknowledged at minute 0, before the worker took it; the
\* worker delivered it at minute 5 to the recipient whose threshold it
\* reaches and armed a timer, which is now due while the alert is not active
\* and was never escalated.
C30_Witness ==
    /\ Len(alerts) = 1
    /\ alerts[1].acknowledged_at = Some(0)
    /\ 1 \notin DOMAIN active_alerts
    /\ EscalationCount(1) = 0
    /\ worker.ticket = 1
    /\ worker.outcome = "ok"
    /\ Len(recipients) >= 1
    /\ alerts[1].severity >= recipients[1].severity_threshold
    /\ \E t \in BagToSet(timers) :
          /\ t.alert_id = 1
          /\ t.pc = "wait"
          /\ t.due = 2 * EscalationTimeout
          /\ now >= t.due

=============================================================================
